---- MODULE Spec2Model ----
(***************************************************************************)
(* A model of the vizzy-chat backend (backend/main.py, context.py,         *)
(* memory.py, story.py): the per-user clarification dialogue, the mood     *)
(* tracker, the memory log and the generation orchestrator with its        *)
(* placeholder fallback.                                                   *)
(*                                                                         *)
(* The handlers are asyncio coroutines on one event loop: the code between *)
(* two suspension points runs atomically, and a handler is suspended only  *)
(* in `await asyncio.to_thread(...)` (the image backend call and the story *)
(* generator).  Each action below is one such atomic stretch.              *)
(*                                                                         *)
(* Text is modelled by strings with Python's str operations (lower,        *)
(* substring test, concatenation, split).  Dicts are functions whose       *)
(* DOMAIN is the set of keys present; None is the record NoneRec.          *)
(***************************************************************************)
EXTENDS Integers, Sequences, FiniteSets, TLC

VARIABLES
    pending_context,     \* context.py: user_id -> {mood?, event?}
    conversation_state,  \* main.py: user_id -> {last_bot_message}
    user_memory,         \* memory.py: user_id -> list of {message, timestamp}
    reqs,                \* the /chat requests started so far, each with its locals
    reset_response,      \* the latest /reset and its HTTP status, NoneRec once its user chats again
    clock,               \* time.time() / datetime.now(), as a logical clock
    calls                \* the calls made on the mood tracker's functions directly

vars ==
    << pending_context, conversation_state, user_memory, reqs, reset_response, clock, calls >>

(***************************************************************************)
(* Bounds of the model.                                                    *)
(***************************************************************************)
MaxReqs == 2

Users == {"u1", "u2"}

(***************************************************************************)
(* Python str operations.                                                  *)
(***************************************************************************)
UpperChars == "ABCDEFGHIJKLMNOPQRSTUVWXYZ"
LowerChars == "abcdefghijklmnopqrstuvwxyz"

\* upper-case letter -> lower-case letter, and back
ToLower ==
    [c \in {SubSeq(UpperChars, i, i) : i \in 1..Len(UpperChars)} |->
        LET i == CHOOSE j \in 1..Len(UpperChars) : SubSeq(UpperChars, j, j) = c
        IN  SubSeq(LowerChars, i, i)]

ToUpper ==
    [c \in {SubSeq(LowerChars, i, i) : i \in 1..Len(LowerChars)} |->
        LET i == CHOOSE j \in 1..Len(LowerChars) : SubSeq(LowerChars, j, j) = c
        IN  SubSeq(UpperChars, i, i)]

LowerChar(c) == IF c \in DOMAIN ToLower THEN ToLower[c] ELSE c

RECURSIVE Lower(_)
Lower(s) ==
    IF s = "" THEN "" ELSE LowerChar(SubSeq(s, 1, 1)) \o Lower(SubSeq(s, 2, Len(s)))

\* Python's `kw in s` for strings
Contains(kw, s) ==
    \/ kw = ""
    \/ \E i \in 1..(Len(s) - Len(kw) + 1) : SubSeq(s, i, i + Len(kw) - 1) = kw

\* Python's any(word in s for word in words), words a sequence
AnyIn(words, s) == \E k \in 1..Len(words) : Contains(words[k], s)

(***************************************************************************)
(* Python dicts and None.                                                  *)
(***************************************************************************)
NoneRec == [type |-> "None"]

EmptyDict == [k \in {} |-> NoneRec]

DictSet(d, k, v) == (k :> v) @@ d

DictDel(d, k) == [x \in (DOMAIN d) \ {k} |-> d[x]]

DictGet(d, k, default) == IF k \in DOMAIN d THEN d[k] ELSE default

(***************************************************************************)
(* The request inputs.                                                     *)
(***************************************************************************)
MsgMyDay    == "Tell me about my day"
MsgPeaceful == "it was peaceful"
MsgHectic   == "today was hectic"
MsgCat      == "paint a happy cat"

Messages == {MsgMyDay, MsgPeaceful, MsgHectic, MsgCat}

\* more texts: two mood words in the reverse of their vocabulary order, and a
\* day query in capitals that carries a mood keyword
MsgCalmTired  == "calm but tired"
MsgHappyToday == "TODAY I was Happy"

\* two event words in the reverse of their vocabulary order, and no mood word
MsgTodayWork  == "today at work"

\* texts with and without style keywords
MsgFilm  == "film film film"
MsgRetro == "retro look"
MsgOld   == "an old map"
MsgHello == "hello"
MemMessages == {MsgFilm, MsgRetro, MsgOld, MsgHello}

\* a vague text that also holds a word of the "feeling" questions
MsgFeelToday == "how do I feel today"

\* a vague text that holds a style keyword
MsgRetroToday == "a retro look today"

AllMessages ==
    Messages \cup {MsgCalmTired, MsgHappyToday, MsgTodayWork, MsgFeelToday, MsgRetroToday}
    \cup MemMessages

\* ChatRequest.mode is any string; "mood" stands for one outside the six known modes
KnownModes == {"art", "poster", "story", "transform", "business", "personal"}
Modes == KnownModes \cup {"mood"}

(***************************************************************************)
(* context.py: the mood/event tracker.  Every operator takes the dict      *)
(* pending_context and returns the dict after the call.                    *)
(***************************************************************************)
ctx_moods ==
    << "happy", "sad", "tired", "peaceful", "excited", "angry", "nostalgic", "anxious", "dull",
       "boring", "energetic", "calm", "romantic", "mysterious", "professional", "creative",
       "melancholic", "subdued", "weary", "vibrant", "joyful", "somber", "tender", "enigmatic",
       "polished", "imaginative", "hectic", "serene", "inspiring", "uplifting", "thoughtful",
       "frustrated", "relaxed", "contemplative", "motivated" >>

ctx_events ==
    << "work", "office", "family", "friends", "home", "personal", "life", "career", "morning",
       "afternoon", "evening", "night", "weekend", "vacation", "meeting", "day", "today",
       "yesterday", "tomorrow", "business", "company" >>

init_user(ctx, user_id) ==
    IF user_id \in DOMAIN ctx THEN ctx ELSE DictSet(ctx, user_id, EmptyDict)

\* the value needs_context returns (the call itself also runs init_user)
needs_context(ctx, user_id) == "mood" \notin DOMAIN (init_user(ctx, user_id)[user_id])

\* `for w in words: if w in msg: d[key] = w`, from the k-th word on
RECURSIVE ScanWords(_, _, _, _, _)
ScanWords(d, key, words, msg, k) ==
    IF k > Len(words) THEN d
    ELSE ScanWords(IF Contains(words[k], msg) THEN DictSet(d, key, words[k]) ELSE d,
                   key, words, msg, k + 1)

\* mutant: each loop stops at its first match
scan_context_first_match(message) ==
    LET msg   == Lower(message)
        first(words) == CHOOSE k \in 1..Len(words) :
                            /\ Contains(words[k], msg)
                            /\ \A j \in 1..(k - 1) : ~Contains(words[j], msg)
        d1 == IF AnyIn(ctx_moods, msg) THEN DictSet(EmptyDict, "mood", ctx_moods[first(ctx_moods)])
              ELSE EmptyDict
    IN  IF AnyIn(ctx_events, msg) THEN DictSet(d1, "event", ctx_events[first(ctx_events)])
        ELSE d1

\* the keys update_context's two loops assign for a message, as a dict
scan_context(message) ==
    LET msg == Lower(message)
        d1  == ScanWords(EmptyDict, "mood", ctx_moods, msg, 1)
    IN  ScanWords(d1, "event", ctx_events, msg, 1)

\* scan_context of the request messages, evaluated once
ScanTable == [m \in AllMessages |-> scan_context(m)]

\* mutant: one context shared by all users (the matches are written to every entry)
update_context_shared(ctx, user_id, message) ==
    LET ctx0 == init_user(ctx, user_id)
        scan == IF message \in AllMessages THEN ScanTable[message] ELSE scan_context(message)
    IN  [u \in DOMAIN ctx0 |-> scan @@ ctx0[u]]

\* mutant: the user's dict is rebuilt from the message alone
update_context_fresh(ctx, user_id, message) ==
    LET ctx0 == init_user(ctx, user_id)
        scan == IF message \in AllMessages THEN ScanTable[message] ELSE scan_context(message)
    IN  DictSet(ctx0, user_id, scan)

update_context(ctx, user_id, message) ==
    LET ctx0 == init_user(ctx, user_id)
        scan == IF message \in AllMessages THEN ScanTable[message] ELSE scan_context(message)
    IN  DictSet(ctx0, user_id, scan @@ ctx0[user_id])

\* mutant: the event is tested before the mood
get_context_prompt_event_first(ctx, user_id) ==
    LET d     == init_user(ctx, user_id)[user_id]
        mood  == DictGet(d, "mood", "")
        event == DictGet(d, "event", "")
    IN  IF event # "" THEN "scene related to " \o event
        ELSE IF mood # "" THEN mood \o " atmosphere"
        ELSE ""

get_context_prompt(ctx, user_id) ==
    LET d     == init_user(ctx, user_id)[user_id]
        mood  == DictGet(d, "mood", "")
        event == DictGet(d, "event", "")
    IN  IF mood # "" /\ event # "" THEN mood \o " atmosphere related to " \o event
        ELSE IF mood # "" THEN mood \o " atmosphere"
        ELSE IF event # "" THEN "scene related to " \o event
        ELSE ""

\* mutant: only the event is dropped
clear_context_event_only(ctx, user_id) ==
    IF user_id \in DOMAIN ctx THEN DictSet(ctx, user_id, DictDel(ctx[user_id], "event")) ELSE ctx

clear_context(ctx, user_id) ==
    IF user_id \in DOMAIN ctx THEN DictSet(ctx, user_id, EmptyDict) ELSE ctx

(***************************************************************************)
(* memory.py: the rolling message log.                                     *)
(***************************************************************************)
MemoryCap == 50

\* Python's xs[-n:]
LastN(xs, n) == IF Len(xs) <= n THEN xs ELSE SubSeq(xs, Len(xs) - n + 1, Len(xs))

\* the same, keeping the oldest entries of a full log
update_memory_keeping_oldest(mem, user_id, msg, timestamp) ==
    LET mem0  == IF user_id \in DOMAIN mem THEN mem ELSE DictSet(mem, user_id, << >>)
        log   == Append(mem0[user_id], [message |-> msg, timestamp |-> timestamp])
    IN  DictSet(mem0, user_id, IF Len(log) > MemoryCap THEN SubSeq(log, 1, MemoryCap) ELSE log)

update_memory(mem, user_id, msg, timestamp) ==
    LET mem0  == IF user_id \in DOMAIN mem THEN mem ELSE DictSet(mem, user_id, << >>)
        log   == Append(mem0[user_id], [message |-> msg, timestamp |-> timestamp])
    IN  DictSet(mem0, user_id, IF Len(log) > MemoryCap THEN LastN(log, MemoryCap) ELSE log)

\* Python's str.split() on blanks, scanning s from position i
RECURSIVE SplitFrom(_, _, _, _)
SplitFrom(s, i, cur, acc) ==
    IF i > Len(s) THEN (IF cur = "" THEN acc ELSE Append(acc, cur))
    ELSE LET c == SubSeq(s, i, i)
         IN  IF c = " "
             THEN SplitFrom(s, i + 1, "", IF cur = "" THEN acc ELSE Append(acc, cur))
             ELSE SplitFrom(s, i + 1, cur \o c, acc)

Split(s) == SplitFrom(s, 1, "", << >>)

\* Python's " ".join(words)
RECURSIVE Join(_)
Join(words) ==
    IF words = << >> THEN ""
    ELSE IF Len(words) = 1 THEN words[1]
    ELSE words[1] \o " " \o Join(Tail(words))

UpperChar(c) == IF c \in DOMAIN ToUpper THEN ToUpper[c] ELSE c

\* Python's str.capitalize(): first character upper-cased, the rest lower-cased
Capitalize(s) ==
    IF s = "" THEN "" ELSE UpperChar(SubSeq(s, 1, 1)) \o Lower(SubSeq(s, 2, Len(s)))

(***************************************************************************)
(* memory.py: get_user_preferences, detect_favorite_style,                 *)
(* detect_common_themes.  A Python str result is Str(s), None is NoneRec.  *)
(* list(set(xs))[:n] and max(set(xs), key = ...) follow the iteration      *)
(* order of a set of strings, which the interpreter's hash seed decides:   *)
(* they are modelled by the set of the results that order can give.        *)
(***************************************************************************)
Str(s) == [type |-> "str", value |-> s]

style_keywords ==
    [ cinematic  |-> << "cinematic", "movie", "film" >>,
      minimalist |-> << "minimal", "simple", "clean" >>,
      abstract   |-> << "abstract", "artistic" >>,
      realistic  |-> << "realistic", "real", "photograph" >>,
      vintage    |-> << "vintage", "retro", "old" >>,
      modern     |-> << "modern", "contemporary" >>,
      art        |-> << "art", "artistic", "creative" >>,
      poster     |-> << "poster", "sign", "ad" >>,
      story      |-> << "story", "narrative", "tale" >> ]

\* history[-10:], history[-5:]
StyleWindow == 10
ThemeWindow == 5
MaxThemes == 3

\* the styles one message appends to styles
styles_of(msg) == {s \in DOMAIN style_keywords : AnyIn(style_keywords[s], Lower(msg))}

StylesTable == [m \in AllMessages |-> styles_of(m)]

\* styles.count(style) after the loop over entries
styles_count(entries, style) ==
    Cardinality({k \in 1..Len(entries) : style \in StylesTable[entries[k].message]})

\* the same, looking at the whole history
detect_favorite_style_whole_history(history) ==
    LET found == {s \in DOMAIN style_keywords : styles_count(history, s) > 0}
    IN  IF found = {} THEN {NoneRec}
        ELSE {Str(s) : s \in {s \in found : \A t \in found :
                                   styles_count(history, s) >= styles_count(history, t)}}

\* the results detect_favorite_style can return: max(set(styles), key = styles.count)
\* is the first style with the largest count in the set's iteration order
detect_favorite_style(history) ==
    LET entries == LastN(history, StyleWindow)
        found   == {s \in DOMAIN style_keywords : styles_count(entries, s) > 0}
    IN  IF found = {} THEN {NoneRec}
        ELSE {Str(s) : s \in {s \in found : \A t \in found :
                                   styles_count(entries, s) >= styles_count(entries, t)}}

\* the lists list(set(xs))[:n] can be: the first n of the distinct values in any order
ListOfSetPrefix(S, n) ==
    LET len == IF Cardinality(S) < n THEN Cardinality(S) ELSE n
    IN  {l \in [1..len -> S] : \A i, j \in 1..len : l[i] = l[j] => i = j}

\* the words one message adds to themes
theme_words(msg) ==
    LET words == Split(Lower(msg))
    IN  {words[k] : k \in {k \in 1..Len(words) : Len(words[k]) > 4}}

ThemeWordsTable == [m \in AllMessages |-> theme_words(m)]

detect_common_themes(history) ==
    LET entries == LastN(history, ThemeWindow)
    IN  ListOfSetPrefix(UNION {ThemeWordsTable[entries[k].message] : k \in 1..Len(entries)},
                        MaxThemes)

\* the dicts get_user_preferences can return
get_user_preferences(mem, user_id) ==
    IF user_id \notin DOMAIN mem
    THEN {[favorite_style |-> NoneRec, interaction_count |-> 0, common_themes |-> << >>]}
    ELSE {[favorite_style |-> style, interaction_count |-> Len(mem[user_id]),
           common_themes |-> themes] :
             style \in detect_favorite_style(mem[user_id]),
             themes \in detect_common_themes(mem[user_id])}

(***************************************************************************)
(* story.py: the template story generator.                                 *)
(***************************************************************************)
story_templates(mood) ==
    [ adventure |->
        << "Once upon a time, in a " \o mood \o " land far away...",
           "The hero embarked on a " \o mood \o " journey...",
           "An unexpected adventure began on a " \o mood \o " morning..." >>,
      romance |->
        << "Two hearts met under a " \o mood \o " sky...",
           "A " \o mood \o " love story unfolded...",
           "In the " \o mood \o " glow of twilight, they found each other..." >>,
      mystery |->
        << "A " \o mood \o " secret waited to be discovered...",
           "The " \o mood \o " night held many secrets...",
           "Something " \o mood \o " was about to happen..." >>,
      inspirational |->
        << "A " \o mood \o " journey of self-discovery began...",
           "She found strength in the " \o mood \o " moments...",
           "The " \o mood \o " path led to unexpected places..." >>,
      fantasy |->
        << "In a realm of " \o mood \o " magic...",
           "The " \o mood \o " prophecy spoke of a hero...",
           "Magic filled the " \o mood \o " air..." >>,
      default |->
        << "In a " \o mood \o " setting, our story begins...",
           "The " \o mood \o " atmosphere set the stage...",
           "A " \o mood \o " tale unfolded before our eyes..." >> ]

\* the number of templates random.choice picks from
NumTemplates == 3

story_type_of(prompt) ==
    LET prompt_lower == Lower(prompt)
    IN  IF AnyIn(<< "adventure", "journey", "quest", "explore" >>, prompt_lower) THEN "adventure"
        ELSE IF AnyIn(<< "love", "romance", "heart", "together" >>, prompt_lower) THEN "romance"
        ELSE IF AnyIn(<< "mystery", "secret", "detective", "puzzle" >>, prompt_lower) THEN "mystery"
        ELSE IF AnyIn(<< "inspire", "dream", "hope", "motivate" >>, prompt_lower) THEN "inspirational"
        ELSE IF AnyIn(<< "magic", "dragon", "fantasy", "wizard" >>, prompt_lower) THEN "fantasy"
        ELSE "default"

story_title(prompt) ==
    LET title_words == Split(prompt)
    IN  Capitalize(IF Len(title_words) > 3
                   THEN Join(SubSeq(title_words, 1, 3)) \o "..."
                   ELSE prompt)

\* prompts that hold keywords of one theme, of two themes, of none
StoryTexts ==
    { "a dragon with a dream", "the wizard quest", "a secret love", "hope for all",
      "magic tree", "blue sky" }

\* the prompts of direct calls and those the request messages give rise to (a message, or a vague message
\* with the mood sentence of its answer), with their theme and title evaluated once
StoryPrompts ==
    StoryTexts \cup Messages \cup {q \o ". The mood is " \o d \o "." :
                     q \in Messages,
                     d \in {"peaceful and calm", "happy and joyful", "thoughtful and reflective"}}

StoryTypeTable == [p \in StoryPrompts |-> story_type_of(p)]
StoryTitleTable == [p \in StoryPrompts |-> story_title(p)]

\* generate_story; choice is the index random.choice draws
generate_story(prompt, mood, choice) ==
    LET story_type == IF prompt \in StoryPrompts THEN StoryTypeTable[prompt]
                      ELSE story_type_of(prompt)
        template   == story_templates(mood)[story_type][choice]
        scenes     == << template \o " " \o prompt,
                         "The " \o mood \o " journey continued as new challenges emerged.",
                         "In the end, the " \o mood \o " experience left everyone transformed." >>
        title      == IF prompt \in StoryPrompts THEN StoryTitleTable[prompt]
                      ELSE story_title(prompt)
    IN  [ title |-> title, scenes |-> scenes, theme |-> story_type,
          mood |-> mood, scene_count |-> Len(scenes) ]

(***************************************************************************)
(* main.py: conversation state.                                            *)
(***************************************************************************)
get_last_interaction(cs, user_id) ==
    IF user_id \in DOMAIN cs /\ "last_bot_message" \in DOMAIN cs[user_id]
    THEN cs[user_id]["last_bot_message"]
    ELSE NoneRec

\* mutant: the query is stored as chat lower-cased it for its tests
store_question_asked_lowered(cs, user_id, original_query, asked_at) ==
    LET cs0 == IF user_id \in DOMAIN cs THEN cs ELSE DictSet(cs, user_id, EmptyDict)
    IN  DictSet(cs0, user_id,
                DictSet(cs0[user_id], "last_bot_message",
                        [type |-> "question", original_query |-> Lower(original_query),
                         asked_at |-> asked_at]))

store_question_asked(cs, user_id, original_query, asked_at) ==
    LET cs0 == IF user_id \in DOMAIN cs THEN cs ELSE DictSet(cs, user_id, EmptyDict)
    IN  DictSet(cs0, user_id,
                DictSet(cs0[user_id], "last_bot_message",
                        [type |-> "question", original_query |-> original_query,
                         asked_at |-> asked_at]))

\* mutant: a record that is already stored is kept (setdefault)
store_generated_response_once(cs, user_id, response) ==
    IF user_id \in DOMAIN cs /\ "last_bot_message" \in DOMAIN cs[user_id]
    THEN cs
    ELSE DictSet(IF user_id \in DOMAIN cs THEN cs ELSE DictSet(cs, user_id, EmptyDict),
                 user_id, [last_bot_message |-> response])

\* mutant: the result is returned without being stored
store_generated_response_skipped(cs, user_id, response) == cs

store_generated_response(cs, user_id, response) ==
    LET cs0 == IF user_id \in DOMAIN cs THEN cs ELSE DictSet(cs, user_id, EmptyDict)
    IN  DictSet(cs0, user_id, DictSet(cs0[user_id], "last_bot_message", response))

\* mutant: the user's entry is created, the mood is not written
update_context_with_mood_unsaved(ctx, user_id, mood) ==
    IF user_id \in DOMAIN ctx THEN ctx ELSE DictSet(ctx, user_id, EmptyDict)

\* mutant: a mood that is already tracked is kept (setdefault)
update_context_with_mood_default(ctx, user_id, mood) ==
    LET ctx0 == IF user_id \in DOMAIN ctx THEN ctx ELSE DictSet(ctx, user_id, EmptyDict)
    IN  IF "mood" \in DOMAIN ctx0[user_id] THEN ctx0
        ELSE DictSet(ctx0, user_id, DictSet(ctx0[user_id], "mood", mood))

update_context_with_mood(ctx, user_id, mood) ==
    LET ctx0 == IF user_id \in DOMAIN ctx THEN ctx ELSE DictSet(ctx, user_id, EmptyDict)
    IN  DictSet(ctx0, user_id, DictSet(ctx0[user_id], "mood", mood))

(***************************************************************************)
(* main.py: the clarified request processor (up to its call of             *)
(* generate_content).                                                      *)
(***************************************************************************)
mood_map_keys ==
    << "dull", "boring", "tired", "peaceful", "energetic", "happy", "sad", "busy", "calm",
       "motivation" >>

mood_map_descs ==
    << "dull and unmotivated", "boring and uneventful", "tired and exhausted",
       "peaceful and calm", "energetic and vibrant", "happy and joyful",
       "sad and melancholic", "busy and hectic", "calm and relaxed", "needing motivation" >>

\* mutant: the loop has no break, the last keyword found wins
detect_mood_index_last(clarification) ==
    LET message_lower == Lower(clarification)
        hits == {k \in 1..Len(mood_map_keys) : Contains(mood_map_keys[k], message_lower)}
    IN  IF hits = {} THEN 0 ELSE CHOOSE k \in hits : \A j \in hits : k >= j

\* the index of the first mood_map keyword found in the clarification, 0 if none
detect_mood_index(clarification) ==
    LET message_lower == Lower(clarification)
        hits == {k \in 1..Len(mood_map_keys) : Contains(mood_map_keys[k], message_lower)}
    IN  IF hits = {} THEN 0 ELSE CHOOSE k \in hits : \A j \in hits : k <= j

\* detect_mood_index of the request messages, evaluated once
MoodIndexTable == [m \in AllMessages |-> detect_mood_index(m)]

MoodIndex(clarification) ==
    IF clarification \in AllMessages THEN MoodIndexTable[clarification]
    ELSE detect_mood_index(clarification)

simple_mood_of(clarification) ==
    LET k == MoodIndex(clarification)
    IN  IF k = 0 THEN "thoughtful" ELSE mood_map_keys[k]

detected_mood_desc_of(clarification) ==
    LET k == MoodIndex(clarification)
    IN  IF k = 0 THEN "thoughtful and reflective" ELSE mood_map_descs[k]

enhanced_message_of(last_question, clarification) ==
    LET original_query == IF "original_query" \in DOMAIN last_question
                          THEN last_question.original_query ELSE clarification
    IN  original_query \o ". The mood is " \o detected_mood_desc_of(clarification) \o "."

(***************************************************************************)
(* main.py: chat's vagueness test.                                         *)
(***************************************************************************)
chat_mood_keywords == << "happy", "sad", "dull", "boring", "energetic", "calm" >>

is_day_query(message) ==
    LET message_lower == Lower(message)
    IN  Contains("my day", message_lower) \/ Contains("today", message_lower)

\* mutant: the test uses the mood tracker's vocabulary
has_mood_detail_vocabulary(message) == AnyIn(ctx_moods, Lower(message))

has_mood_detail(message) == AnyIn(chat_mood_keywords, Lower(message))

is_vague_day_request(message) == is_day_query(message) /\ ~has_mood_detail(message)

\* is_vague_day_request of the request messages, evaluated once
VagueTable == [m \in AllMessages |-> is_vague_day_request(m)]

(***************************************************************************)
(* main.py: the image backend call and the generation orchestrator.        *)
(***************************************************************************)
\* what one requests.post can come back with
BackendOutcomes == {"ok", "timeout", "non200", "malformed"}

\* one iteration of generate_images_hf's loop, once the backend has answered:
\* the try block appends the image, the except block a placeholder
\* mutant: no placeholder is appended for a failed call
generate_images_hf_step_dropping(images, outcome) ==
    IF outcome = "ok"
    THEN [raised |-> FALSE, images |-> Append(images, "image")]
    ELSE [raised |-> FALSE, images |-> images]

\* mutant: no try/except around the call, the failure propagates
generate_images_hf_step_raising(images, outcome) ==
    IF outcome = "ok"
    THEN [raised |-> FALSE, images |-> Append(images, "image")]
    ELSE [raised |-> TRUE, images |-> images]

generate_images_hf_step(images, outcome) ==
    IF outcome = "ok"
    THEN [raised |-> FALSE, images |-> Append(images, "image")]
    ELSE [raised |-> FALSE, images |-> Append(images, "placeholder")]

\* encode_images; bad holds the positions whose encoding raises
encode_images(images, bad) ==
    [k \in 1..Len(images) |-> IF k \in bad THEN "None" ELSE "base64:" \o images[k]]

GenBranches == {"art", "poster", "story", "transform", "business"}

\* the lists random.choice draws the style from, by branch
style_lists ==
    [ art       |-> << "expressionist", "impressionist", "abstract", "surreal" >>,
      poster    |-> << "minimalist", "bold typography", "elegant", "modern" >>,
      story     |-> << "cinematic", "illustrated", "children's book" >>,
      transform |-> << "oil painting", "watercolor", "sketch", "cyberpunk" >>,
      business  |-> << "corporate", "professional", "clean", "modern" >>,
      personal  |-> << >> ]

base_style == "artistic, creative, atmospheric, emotional"
negative_prompt == "blurry, low quality, distorted, ugly, text, watermark"

\* the art branch's is_about_day, evaluated once for the known prompts
is_about_day(message) ==
    LET message_lower == Lower(message)
    IN  Contains("my day", message_lower) \/ Contains("today", message_lower)

AboutDayTable == [p \in AllMessages \cup StoryPrompts |-> is_about_day(p)]

AboutDay(message) ==
    IF message \in DOMAIN AboutDayTable THEN AboutDayTable[message] ELSE is_about_day(message)

\* enhanced_prompt of the branches that build it before the first backend call
\* (styled is base_style with the favourite style appended)
enhanced_prompt(branch, message, mood, style, context_prompt, styled) ==
    IF branch = "art"
    THEN IF AboutDay(message)
         THEN "Artistic interpretation of a day, " \o mood \o " mood, " \o style \o " style"
         ELSE message \o ", " \o style \o " style, " \o styled
    ELSE IF branch = "poster"
    THEN style \o " poster background, " \o message \o ", " \o mood \o " atmosphere, no text"
    ELSE IF branch = "transform"
    THEN message \o ", transformed into " \o style \o " style, " \o mood \o " atmosphere"
    ELSE IF branch = "business"
    THEN message \o ", " \o style \o " business visual, professional, " \o mood
         \o " atmosphere"
    ELSE IF branch = "personal"
    THEN message \o ", " \o context_prompt \o ", " \o styled
    ELSE ""

\* the number of values random.choice can draw before the first suspension
style_picks(mode) ==
    LET branch == IF mode \in GenBranches THEN mode ELSE "personal"
    IN  IF branch \in {"story", "personal"} THEN 1 ELSE Len(style_lists[branch])

\* generate_content up to its first suspension: the locals it holds from then on
\* (outcomes logs whether each backend call of the request succeeded, prompts the
\* prompt each call was made with); favorite_style is what get_user_preferences
\* returned, pick the index random.choice draws
generate_content_enter(req, ctx, favorite_style, pick) ==
    LET user_ctx == DictGet(ctx, req.user_id, EmptyDict)
        mood     == DictGet(user_ctx, "mood", "vibrant")
        context_prompt == get_context_prompt(ctx, req.user_id)
        branch   == IF req.mode \in GenBranches THEN req.mode ELSE "personal"
        styled   == IF favorite_style # NoneRec /\ favorite_style.value # ""
                    THEN base_style \o ", " \o favorite_style.value ELSE base_style
        style    == IF branch \in {"story", "personal"} THEN "" ELSE style_lists[branch][pick]
    IN  [ message |-> req.message, mode |-> req.mode, branch |-> branch, mood |-> mood,
          base_style |-> styled, style |-> style,
          enhanced_prompt |->
              enhanced_prompt(branch, req.message, mood, style, context_prompt, styled),
          num_images |-> IF branch = "story" THEN 1 ELSE 2,
          calls |-> 0, images |-> << >>, outcomes |-> << >>, prompts |-> << >>,
          title |-> "", scenes |-> << >>, scene_idx |-> 0, scene_images |-> << >> ]

\* scene_prompt of the story branch's loop, for the scene the frame is at
scene_prompt(f) == f.scenes[f.scene_idx] \o ", " \o f.style \o ", " \o f.mood \o " atmosphere"

\* the prompt the next call of generate_images_hf is made with
prompt_sent(f) == IF f.branch = "story" THEN scene_prompt(f) ELSE f.enhanced_prompt

\* mutant: the request first waits for a lock that nothing releases
first_pc_waiting(frame) == "lock_wait"

first_pc(frame) == IF frame.branch = "story" THEN "story_thread" ELSE "hf_post"

\* the same, with the mode of the request in the metadata
build_result_request_mode(frame, encoded) ==
    LET metadata == [mode |-> frame.mode, mood |-> frame.mood]
    IN  IF frame.branch = "story"
        THEN [ type |-> "story",
               content |-> [ title |-> frame.title, scenes |-> frame.scenes,
                             images |-> encoded, mode |-> "story", style |-> frame.style,
                             metadata |-> metadata ] ]
        ELSE [ type |-> IF frame.branch = "poster" THEN "poster" ELSE "image",
               content |-> [ images |-> encoded, prompt_used |-> frame.enhanced_prompt,
                             mode |-> frame.branch, style |-> frame.style,
                             metadata |-> metadata ] ]

\* the dict generate_content returns (without reasoning, slogan and generation_time;
\* style is "" in the personal branch, which has no such key)
build_result(frame, encoded) ==
    LET metadata == [mode |-> frame.branch, mood |-> frame.mood]
    IN  IF frame.branch = "story"
        THEN [ type |-> "story",
               content |-> [ title |-> frame.title, scenes |-> frame.scenes,
                             images |-> encoded, mode |-> "story", style |-> frame.style,
                             metadata |-> metadata ] ]
        ELSE [ type |-> IF frame.branch = "poster" THEN "poster" ELSE "image",
               content |-> [ images |-> encoded, prompt_used |-> frame.enhanced_prompt,
                             mode |-> frame.branch, style |-> frame.style,
                             metadata |-> metadata ] ]

(***************************************************************************)
(* main.py: the /chat and /reset handlers, one action per atomic stretch.  *)
(***************************************************************************)
\* the names main.py binds from context.py (its import line)
main_context_imports == {"update_context", "get_context_prompt", "pending_context"}

\* the JSONResponse of chat's except clause, e the text of the exception
ErrorResponse(e) ==
    [status |-> 500,
     body |-> [type |-> "error", content |-> [text |-> "Generation failed: " \o e]]]

\* the server's own answer to an exception that leaves the handler
UnhandledResponse == [status |-> 500, body |-> [type |-> "None"]]

\* the calls of chat an exception can come from, and those inside its try block
chat_stages == {"update_memory", "update_context", "reply", "await"}
try_block == {"update_memory", "update_context", "reply", "await"}

\* mutant: the try block starts at the reply (clarification, question or generation)
chat_reply_to_exception_late_try(stage, e) ==
    IF stage \in {"reply", "await"} THEN ErrorResponse(e) ELSE UnhandledResponse

\* what the client gets when the call at this stage raises e
chat_reply_to_exception(stage, e) ==
    IF stage \in try_block THEN ErrorResponse(e) ELSE UnhandledResponse

OkResponse(result) == [status |-> 200, body |-> result]

\* the request has not been answered yet
NoResponse == [status |-> 0, body |-> NoneRec]

\* mutant: the except clause also drops what is stored for the user
ChatExcept_forgetting(i, e) ==
    /\ reqs' = [reqs EXCEPT ![i] = [@ EXCEPT !.pc = "done",
                                              !.response = chat_reply_to_exception("await", e)]]
    /\ conversation_state' = DictDel(conversation_state, reqs[i].user_id)
    /\ UNCHANGED << pending_context, user_memory, reset_response, clock, calls >>

\* chat's except clause: the suspended request is answered with HTTP 500
ChatExcept(i, e) ==
    /\ reqs' = [reqs EXCEPT ![i] = [@ EXCEPT !.pc = "done",
                                              !.response = chat_reply_to_exception("await", e)]]
    /\ UNCHANGED << pending_context, conversation_state, user_memory, reset_response, clock, calls >>

\* generate_content returns, and its caller stores the result and returns it
FinishGeneration(i, frame, images, bad) ==
    LET result == build_result(frame, encode_images(images, bad))
    IN  /\ conversation_state' =
               store_generated_response(conversation_state, reqs[i].user_id, result)
        /\ reqs' = [reqs EXCEPT ![i] = [@ EXCEPT !.pc = "done", !.gen = frame,
                                                  !.response = OkResponse(result)]]
        /\ UNCHANGED << pending_context, user_memory, reset_response, clock, calls >>

\* the handler keeps waiting on the backend
Suspend(i, frame, pc) ==
    /\ reqs' = [reqs EXCEPT ![i] = [@ EXCEPT !.pc = pc, !.gen = frame]]
    /\ UNCHANGED << pending_context, conversation_state, user_memory, reset_response, clock, calls >>

\* generate_clarifying_question: the questions by context, the context of a message,
\* and the question random.choice draws with index pick
questions ==
    [ day |->
        << "I'd love to visualize your day! Could you tell me more about how it felt?",
           "What was the predominant feeling during your day?",
           "How would you describe the energy of your day?" >>,
      feeling |->
        << "What emotions would you like me to capture in this artwork?",
           "Tell me more about what you're feeling - that will help me create something meaningful.",
           "What emotional tone should I emphasize?" >>,
      default |->
        << "To create something personal, could you tell me more about the mood you want to express?",
           "What feeling should this artwork capture?",
           "Let's make something special! Tell me more about the feeling you want to capture." >> ]

\* the same, testing the feeling words first
question_context_feeling_first(user_message) ==
    LET message_lower == Lower(user_message)
    IN  IF AnyIn(<< "feel", "feeling", "emotion", "mood" >>, message_lower) THEN "feeling"
        ELSE IF Contains("day", message_lower) \/ Contains("today", message_lower) THEN "day"
        ELSE "default"

question_context(user_message) ==
    LET message_lower == Lower(user_message)
    IN  IF Contains("day", message_lower) \/ Contains("today", message_lower) THEN "day"
        ELSE IF AnyIn(<< "feel", "feeling", "emotion", "mood" >>, message_lower) THEN "feeling"
        ELSE "default"

QuestionContextTable == [m \in AllMessages |-> question_context(m)]

generate_clarifying_question(user_message, pick) ==
    questions[QuestionContextTable[user_message]][pick]

\* mutant: the orchestrator is entered before the question is returned
question_path_generating(req, ctx, question_text) ==
    [pc |-> "hf_post", gen |-> generate_content_enter(req, ctx, NoneRec, 1),
     response |-> OkResponse([type |-> "question", content |-> [text |-> question_text]])]

\* mutant: a user whose mood is recorded is not asked
question_path_unless_mood(req, ctx, question_text) ==
    IF needs_context(ctx, req.user_id)
    THEN [pc |-> "done", gen |-> NoneRec,
          response |-> OkResponse([type |-> "question", content |-> [text |-> question_text]])]
    ELSE [pc |-> "hf_post", gen |-> generate_content_enter(req, ctx, NoneRec, 1),
          response |-> NoResponse]

\* chat's vague branch: the request returns the question, nothing is left to run
question_path(req, ctx, question_text) ==
    [pc |-> "done", gen |-> NoneRec,
     response |-> OkResponse([type |-> "question", content |-> [text |-> question_text]])]

\* the favourite styles get_user_preferences can report to generate_content
favorite_styles(mem, user_id) ==
    {preferences.favorite_style : preferences \in get_user_preferences(mem, user_id)}

\* the number of values random.choice can draw in the request's first stretch
first_picks(cs, user_id, message, mode) ==
    IF get_last_interaction(cs, user_id).type = "question" THEN style_picks(mode)
    ELSE IF VagueTable[message] THEN Len(questions[QuestionContextTable[message]])
    ELSE style_picks(mode)

\* POST /chat, from its first line to its first suspension or its return; pick is the
\* index random.choice draws (for the question, or for the style of the branch)
ChatStartPicking(user_id, message, mode, pick) ==
    /\ pick \in 1..first_picks(conversation_state, user_id, message, mode)
    /\ clock' = clock + 1
    /\ calls' = calls
    /\ reset_response' = IF reset_response.type = "reset" /\ reset_response.user_id = user_id
                         THEN NoneRec ELSE reset_response
    /\ LET mem1 == update_memory(user_memory, user_id, message, clock)
           ctx1 == update_context(pending_context, user_id, message)
           last_interaction == get_last_interaction(conversation_state, user_id)
           req  == [user_id |-> user_id, message |-> message, mode |-> mode]
           new  == [user_id |-> user_id, message |-> message, mode |-> mode,
                    last_interaction |-> last_interaction]
       IN  /\ user_memory' = mem1
           /\ IF last_interaction.type = "question"
              THEN \* process_clarified_request
                   LET ctx2 == update_context_with_mood(ctx1, user_id, simple_mood_of(message))
                       enhanced_req == [req EXCEPT
                                           !.message = enhanced_message_of(last_interaction, message)]
                   IN  /\ pending_context' = ctx2
                       /\ conversation_state' = conversation_state
                       /\ \E favorite_style \in favorite_styles(mem1, user_id) :
                             LET frame == generate_content_enter(enhanced_req, ctx2,
                                                                 favorite_style, pick)
                             IN  reqs' = Append(reqs, new @@ [pc |-> first_pc(frame),
                                                              gen |-> frame,
                                                              response |-> NoResponse])
              ELSE IF VagueTable[message]
              THEN /\ pending_context' = ctx1
                   /\ conversation_state' =
                          store_question_asked(conversation_state, user_id, message, clock)
                   /\ reqs' = Append(reqs, new @@ question_path(req, ctx1,
                                          generate_clarifying_question(message, pick)))
              ELSE /\ pending_context' = ctx1
                   /\ conversation_state' = conversation_state
                   /\ \E favorite_style \in favorite_styles(mem1, user_id) :
                         LET frame == generate_content_enter(req, ctx1, favorite_style, pick)
                         IN  reqs' = Append(reqs, new @@ [pc |-> first_pc(frame),
                                                          gen |-> frame,
                                                          response |-> NoResponse])

\* the same with the first value of each list drawn
ChatStart(user_id, message, mode) == ChatStartPicking(user_id, message, mode, 1)

\* story mode: generate_story comes back from its thread, the style is drawn, the
\* scene loop starts (choice is the template drawn, pick the style)
StoryReturnPicking(i, choice, pick, bad) ==
    /\ reqs[i].pc = "story_thread"
    /\ LET f == reqs[i].gen
           story_data == generate_story(f.message, f.mood, choice)
           scenes == SubSeq(story_data.scenes, 1,
                            IF Len(story_data.scenes) < 3 THEN Len(story_data.scenes) ELSE 3)
           f1 == [f EXCEPT !.title = story_data.title, !.scenes = scenes, !.scene_idx = 1,
                           !.style = style_lists["story"][pick]]
       IN  IF scenes = << >>
           THEN FinishGeneration(i, f1, << >>, bad)
           ELSE Suspend(i, f1, "hf_post")

\* the same with the first style drawn
StoryReturn(i, choice, bad) == StoryReturnPicking(i, choice, 1, bad)

\* mutant: a failed call is made again (the iteration is not counted)
frame_after_call_retrying(f, step, outcome) ==
    [f EXCEPT !.images = IF outcome = "ok" THEN step.images ELSE f.images,
              !.calls = IF outcome = "ok" THEN f.calls + 1 ELSE f.calls,
              !.prompts = Append(@, prompt_sent(f)),
              !.outcomes = Append(@, IF outcome = "ok" THEN "ok" ELSE "failed")]

\* generate_images_hf's locals after one iteration of `for _ in range(num_images)`
frame_after_call(f, step, outcome) ==
    [f EXCEPT !.images = step.images, !.calls = f.calls + 1,
              !.prompts = Append(@, prompt_sent(f)),
              !.outcomes = Append(@, IF outcome = "ok" THEN "ok" ELSE "failed")]

\* the backend answers one requests.post of generate_images_hf
BackendReturn(i, outcome, bad) ==
    /\ reqs[i].pc = "hf_post"
    /\ LET f    == reqs[i].gen
           step == generate_images_hf_step(f.images, outcome)
           f1   == frame_after_call(f, step, outcome)
       IN  IF step.raised THEN ChatExcept(i, outcome)
           ELSE IF f1.calls < f1.num_images THEN Suspend(i, f1, "hf_post")
           ELSE IF f1.branch = "story"
           THEN LET f2 == [f1 EXCEPT
                             !.scene_images = IF f1.images # << >>
                                              THEN Append(@, f1.images[1]) ELSE @,
                             !.scene_idx = @ + 1, !.images = << >>, !.calls = 0]
                IN  IF f2.scene_idx <= Len(f2.scenes)
                    THEN Suspend(i, f2, "hf_post")
                    ELSE FinishGeneration(i, f2, f2.scene_images, bad)
           ELSE FinishGeneration(i, f1, f1.images, bad)

\* the texts of the exceptions drawn for a failing call
Exceptions == {"MemoryError", "RuntimeError"}

\* POST /chat when one call of its atomic first stretch raises e: update_memory,
\* update_context, or the call that builds the reply (process_clarified_request after
\* it has recorded the mood, generate_clarifying_question, generate_content)
ChatFails(user_id, message, mode, stage, e) ==
    /\ stage \in chat_stages \ {"await"}
    /\ clock' = clock + 1
    /\ calls' = calls
    /\ reset_response' = IF reset_response.type = "reset" /\ reset_response.user_id = user_id
                         THEN NoneRec ELSE reset_response
    /\ LET mem1 == update_memory(user_memory, user_id, message, clock)
           ctx1 == update_context(pending_context, user_id, message)
           last_interaction == get_last_interaction(conversation_state, user_id)
           ctx2 == IF last_interaction.type = "question"
                   THEN update_context_with_mood(ctx1, user_id, simple_mood_of(message))
                   ELSE ctx1
       IN  /\ user_memory' = IF stage = "update_memory" THEN user_memory ELSE mem1
           /\ pending_context' = IF stage = "reply" THEN ctx2 ELSE pending_context
           /\ conversation_state' = conversation_state
           /\ reqs' = Append(reqs,
                             [user_id |-> user_id, message |-> message, mode |-> mode,
                              last_interaction |-> IF stage = "reply" THEN last_interaction
                                                   ELSE NoneRec,
                              pc |-> "done", gen |-> NoneRec,
                              response |-> chat_reply_to_exception(stage, e)])

\* an awaited call of a suspended request raises outside every local try: the
\* generate_story thread, or _create_placeholder in generate_images_hf's except clause
AwaitRaises(i, e) ==
    /\ reqs[i].pc \in {"story_thread", "hf_post"}
    /\ ChatExcept(i, e)

ResetResponse(user_id, status) == [type |-> "reset", user_id |-> user_id, status |-> status]

\* mutant: the reset also drops the user's memory log
Reset_clearing_memory(user_id) ==
    /\ user_memory' = DictDel(user_memory, user_id)
    /\ reset_response' = ResetResponse(user_id, 500)
    /\ UNCHANGED << pending_context, conversation_state, reqs, clock, calls >>

\* POST /reset
Reset(user_id) ==
    IF "clear_context" \in main_context_imports
    THEN /\ pending_context' = clear_context(pending_context, user_id)
         /\ conversation_state' = DictDel(conversation_state, user_id)
         /\ reset_response' = ResetResponse(user_id, 200)
         /\ UNCHANGED << user_memory, reqs, clock, calls >>
    ELSE \* NameError at the call of clear_context: nothing ran, the server answers 500
         /\ reset_response' = ResetResponse(user_id, 500)
         /\ UNCHANGED << pending_context, conversation_state, user_memory, reqs, clock, calls >>

(***************************************************************************)
(* The specifications.                                                     *)
(*   Spec      the whole service: two users, /chat and /reset              *)
(*   SpecUser  one user's requests, one more of them                       *)
(*   SpecGen   one user, every mode, every backend and encoding outcome    *)
(***************************************************************************)
MaxUserReqs == 3
MaxGens == 1

Init ==
    /\ pending_context = EmptyDict
    /\ conversation_state = EmptyDict
    /\ user_memory = EmptyDict
    /\ reqs = << >>
    /\ reset_response = NoneRec
    /\ clock = 1
    /\ calls = << >>

\* Spec and SpecUser draw requests of the default mode and two backend outcomes
SpecModes == {"personal"}
SpecOutcomes == {"ok", "timeout"}

ChatRequests(users, limit) ==
    \E u \in users, m \in Messages, mode \in SpecModes :
        Len(reqs) < limit /\ ChatStart(u, m, mode)

BackendAnswers ==
    \E i \in 1..Len(reqs), o \in SpecOutcomes : BackendReturn(i, o, {})

ResetRequests == \E u \in Users : Reset(u)

Next == ChatRequests(Users, MaxReqs) \/ BackendAnswers \/ ResetRequests

Spec == Init /\ [][Next]_vars

NextUser == ChatRequests({"u1"}, MaxUserReqs) \/ BackendAnswers

SpecUser == Init /\ [][NextUser]_vars

\* no request is suspended: every handler started so far has returned
AllDone == \A i \in 1..Len(reqs) : reqs[i].pc = "done"

\* the requests that have entered generate_content
Generations == {i \in 1..Len(reqs) : reqs[i].response.body.type # "question"}

\* the request will be answered with a clarifying question
WouldAsk(user_id, message) ==
    /\ get_last_interaction(conversation_state, user_id).type # "question"
    /\ VagueTable[message]

\* SpecGen draws the vague message in the default mode (the question path never reads
\* the mode), the mood answer in every mode, and a text without a mood in an unknown mode
GenInputs ==
    {<< MsgMyDay, "personal" >>, << MsgHello, "mood" >>}
    \cup {<< MsgPeaceful, mode >> : mode \in Modes}

\* the positions whose encoding fails: none, or the first
EncodeFailures == {{}, {1}}

GenChatRequests ==
    \E in \in GenInputs :
        /\ WouldAsk("u1", in[1]) \/ Cardinality(Generations) < MaxGens
        /\ ChatStart("u1", in[1], in[2])

GenStoryReturns ==
    \E i \in 1..Len(reqs), c \in 1..NumTemplates, bad \in EncodeFailures : StoryReturn(i, c, bad)

GenBackendAnswers ==
    \E i \in 1..Len(reqs), o \in BackendOutcomes, bad \in EncodeFailures :
        BackendReturn(i, o, bad)

NextGen == GenChatRequests \/ GenStoryReturns \/ GenBackendAnswers

SpecGen == Init /\ [][NextGen]_vars

\* SpecFault: one user's requests in the story mode (it suspends on the story thread
\* and on the backend), where any call of chat outside a local try may raise
MaxFaultReqs == 2
FaultModes == {"story"}
FaultMessages == {MsgMyDay, MsgPeaceful}

FaultChatRequests ==
    \E m \in FaultMessages, mode \in FaultModes :
        Len(reqs) < MaxFaultReqs /\ ChatStart("u1", m, mode)

FaultChatFailures ==
    \E m \in FaultMessages, mode \in FaultModes, stage \in chat_stages, e \in Exceptions :
        Len(reqs) < MaxFaultReqs /\ ChatFails("u1", m, mode, stage, e)

FaultStoryReturns ==
    \E i \in 1..Len(reqs) : StoryReturn(i, 1, {})

FaultAwaitRaises == \E i \in 1..Len(reqs), e \in Exceptions : AwaitRaises(i, e)

NextFault ==
    \/ FaultChatRequests
    \/ FaultChatFailures
    \/ FaultStoryReturns
    \/ BackendAnswers
    \/ FaultAwaitRaises

SpecFault == Init /\ [][NextFault]_vars

\* SpecRetry: one user's requests in the default mode, one at a time, where any call of
\* chat may raise and the backend answers or fails
MaxRetryReqs == 3

RetryChatRequests ==
    \E m \in FaultMessages :
        AllDone /\ Len(reqs) < MaxRetryReqs /\ ChatStart("u1", m, "personal")

RetryChatFailures ==
    \E m \in FaultMessages, stage \in chat_stages, e \in Exceptions :
        AllDone /\ Len(reqs) < MaxRetryReqs /\ ChatFails("u1", m, "personal", stage, e)

RetryAwaitRaises == \E i \in 1..Len(reqs), e \in Exceptions : AwaitRaises(i, e)

NextRetry ==
    \/ RetryChatRequests
    \/ RetryChatFailures
    \/ BackendAnswers
    \/ RetryAwaitRaises

SpecRetry == Init /\ [][NextRetry]_vars

\* SpecReset: one user's requests in the default mode, one at a time, over texts with
\* and without a style keyword, and /reset between them
MaxResetReqs == 3
ResetMessages == {MsgCat, MsgHello, MsgRetro}

ResetChatRequests ==
    \E m \in ResetMessages :
        AllDone /\ Len(reqs) < MaxResetReqs /\ ChatStart("u1", m, "personal")

ResetBackendAnswers == \E i \in 1..Len(reqs) : BackendReturn(i, "ok", {})

ResetsBetween == AllDone /\ Reset("u1")

NextReset == ResetChatRequests \/ ResetBackendAnswers \/ ResetsBetween

SpecReset == Init /\ [][NextReset]_vars

\* SpecClarify: one user's requests over texts that tell the mood mapping, the mood
\* vocabulary and the vagueness test apart
MaxClarifyReqs == 2
ClarifyMessages == {MsgMyDay, MsgCalmTired, MsgHectic, MsgHappyToday, MsgCat}

ClarifyChatRequests ==
    \E m \in ClarifyMessages, mode \in SpecModes :
        Len(reqs) < MaxClarifyReqs /\ ChatStart("u1", m, mode)

NextClarify == ClarifyChatRequests \/ BackendAnswers

SpecClarify == Init /\ [][NextClarify]_vars

\* SpecContext: the mood tracker's functions called directly, in any order, for two
\* users; calls is the log of the calls
MaxCalls == 3
CtxMessages == {MsgCalmTired, MsgTodayWork, MsgCat}
CtxMoods == {"thoughtful", "tired"}

Call(fn, user_id, arg) == [fn |-> fn, user_id |-> user_id, arg |-> arg]

CallOn(ctx, call) ==
    /\ Len(calls) < MaxCalls
    /\ pending_context' = ctx
    /\ calls' = Append(calls, call)
    /\ UNCHANGED << conversation_state, user_memory, reqs, reset_response, clock >>

CallNeedsContext ==
    \E u \in Users :
        CallOn(init_user(pending_context, u), Call("needs_context", u, ""))

CallUpdateContext ==
    \E u \in Users, m \in CtxMessages :
        CallOn(update_context(pending_context, u, m), Call("update_context", u, m))

CallUpdateContextWithMood ==
    \E u \in Users, mood \in CtxMoods :
        CallOn(update_context_with_mood(pending_context, u, mood),
               Call("update_context_with_mood", u, mood))

CallClearContext ==
    \E u \in Users :
        CallOn(clear_context(pending_context, u), Call("clear_context", u, ""))

\* get_context_prompt(u): the call is logged with the string it returned
CallGetContextPrompt ==
    \E u \in Users :
        CallOn(init_user(pending_context, u),
               Call("get_context_prompt", u, "")
                   @@ [result |-> get_context_prompt(pending_context, u)])

NextContext ==
    \/ CallNeedsContext
    \/ CallUpdateContext
    \/ CallUpdateContextWithMood
    \/ CallClearContext
    \/ CallGetContextPrompt

SpecContext == Init /\ [][NextContext]_vars

\* SpecLive: one user's requests in the default and the story mode, where every call a
\* request is suspended on comes back (requests.post has a timeout, the story thread
\* returns)
MaxLiveReqs == 2
LiveModes == {"personal", "story"}
LiveMessages == {MsgMyDay, MsgPeaceful}

LiveChatRequests ==
    \E m \in LiveMessages, mode \in LiveModes :
        Len(reqs) < MaxLiveReqs /\ ChatStart("u1", m, mode)

\* the call request i is suspended on comes back
AwaitReturns(i) ==
    /\ i <= Len(reqs)
    /\ \/ StoryReturn(i, 1, {})
       \/ \E o \in SpecOutcomes : BackendReturn(i, o, {})

LiveAwaitReturns == \E i \in 1..MaxLiveReqs : AwaitReturns(i)

NextLive == LiveChatRequests \/ LiveAwaitReturns

SpecLive ==
    /\ Init
    /\ [][NextLive]_vars
    /\ \A i \in 1..MaxLiveReqs : WF_vars(AwaitReturns(i))

\* SpecPrompt: one user's requests, one at a time, with every value random.choice can
\* draw, the backend answering every call, and /reset; a vague message is sent in the
\* default mode (the question path never reads the mode), an answer in every mode
MaxPromptGens == 1
VagueInputs == {MsgMyDay, MsgFeelToday, MsgRetroToday}
PromptInputs ==
    {<< m, "personal" >> : m \in VagueInputs}
    \cup {<< m, mode >> : m \in {MsgHappyToday, MsgCat}, mode \in Modes}
MaxPicks == 4

PromptChatRequests ==
    \E in \in PromptInputs, pick \in 1..MaxPicks :
        /\ AllDone
        /\ Cardinality(Generations) < MaxPromptGens
        /\ ChatStartPicking("u1", in[1], in[2], pick)

PromptStoryReturns ==
    \E i \in 1..Len(reqs), pick \in 1..Len(style_lists["story"]) :
        StoryReturnPicking(i, 1, pick, {})

PromptBackendAnswers == \E i \in 1..Len(reqs) : BackendReturn(i, "ok", {})

PromptResets == AllDone /\ Reset("u1")

NextPrompt ==
    \/ PromptChatRequests
    \/ PromptStoryReturns
    \/ PromptBackendAnswers
    \/ PromptResets

SpecPrompt == Init /\ [][NextPrompt]_vars

(***************************************************************************)
(* SpecMemory.                                                             *)
(***************************************************************************)
\* SpecMemory: update_memory and get_user_preferences called directly on a log that
\* earlier update_memory calls have filled with a first message and greetings; calls
\* is the log of all the calls, clock counts those of the run
MaxMemoryCalls == 4
PrefillLens == {0, 8, 49}

Prefill(first, n) == [k \in 1..n |-> IF k = 1 THEN first ELSE MsgHello]

\* user_memory after update_memory calls with these messages, from the k-th on, on mem
RECURSIVE memory_after(_, _, _, _)
memory_after(mem, user_id, msgs, k) ==
    IF k > Len(msgs) THEN mem
    ELSE LET next == update_memory(mem, user_id, msgs[k], k - Len(msgs))
         IN  IF user_id \in DOMAIN next THEN memory_after(next, user_id, msgs, k + 1) ELSE next

InitMemory ==
    \E n \in PrefillLens, first \in MemMessages :
        /\ n = 0 => first = MsgHello
        /\ pending_context = EmptyDict
        /\ conversation_state = EmptyDict
        /\ user_memory = memory_after(EmptyDict, "u1", Prefill(first, n), 1)
        /\ reqs = << >>
        /\ reset_response = NoneRec
        /\ clock = 1
        /\ calls = [k \in 1..n |-> Call("update_memory", "u1", Prefill(first, n)[k])]

CallUpdateMemory ==
    \E msg \in MemMessages :
        /\ clock <= MaxMemoryCalls
        /\ user_memory' = update_memory(user_memory, "u1", msg, clock)
        /\ calls' = Append(calls, Call("update_memory", "u1", msg))
        /\ clock' = clock + 1
        /\ UNCHANGED << pending_context, conversation_state, reqs, reset_response >>

CallGetUserPreferences ==
    \E u \in Users :
        \E preferences \in get_user_preferences(user_memory, u) :
            /\ clock <= MaxMemoryCalls
            /\ calls' = Append(calls, [fn |-> "get_user_preferences", user_id |-> u,
                                       arg |-> "", result |-> preferences])
            /\ clock' = clock + 1
            /\ UNCHANGED << pending_context, conversation_state, user_memory, reqs,
                            reset_response >>

NextMemory == CallUpdateMemory \/ CallGetUserPreferences

SpecMemory == InitMemory /\ [][NextMemory]_vars

(***************************************************************************)
(* main.py: extract_slogan.                                                *)
(***************************************************************************)
\* the first position from `from` on where sub starts in s, 0 when there is none
RECURSIVE Find(_, _, _)
Find(sub, s, from) ==
    IF from + Len(sub) - 1 > Len(s) THEN 0
    ELSE IF SubSeq(s, from, from + Len(sub) - 1) = sub THEN from
    ELSE Find(sub, s, from + 1)

\* re.findall(q + "([^q]*)" + q, message)[0] when the list is not empty: the text
\* between the first quote character and the next one
first_quoted(q, message) ==
    LET i == Find(q, message, 1)
        j == IF i = 0 THEN 0 ELSE Find(q, message, i + 1)
    IN  IF j = 0 THEN NoneRec ELSE Str(SubSeq(message, i + 1, j - 1))

\* str.strip() on texts whose only white space is the blank
RECURSIVE Strip(_)
Strip(s) ==
    IF s = "" THEN s
    ELSE IF SubSeq(s, 1, 1) = " " THEN Strip(SubSeq(s, 2, Len(s)))
    ELSE IF SubSeq(s, Len(s), Len(s)) = " " THEN Strip(SubSeq(s, 1, Len(s) - 1))
    ELSE s

\* re.sub(r'[.!?]$', '', slogan)
strip_trailing_punctuation(slogan) ==
    IF slogan # "" /\ SubSeq(slogan, Len(slogan), Len(slogan)) \in {".", "!", "?"}
    THEN SubSeq(slogan, 1, Len(slogan) - 1)
    ELSE slogan

SloganPhrase == "slogan should be"

\* text.split("slogan should be")[1] of a text that holds the phrase
after_phrase(text) ==
    LET i    == Find(SloganPhrase, text, 1)
        rest == SubSeq(text, i + Len(SloganPhrase), Len(text))
        next == Find(SloganPhrase, rest, 1)
    IN  IF next = 0 THEN rest ELSE SubSeq(rest, 1, next - 1)

\* the same, trying the single quotes first
extract_slogan_single_first(message) ==
    LET single == first_quoted("'", message)
        double == first_quoted("\"", message)
    IN  IF single # NoneRec THEN single
        ELSE IF double # NoneRec THEN double
        ELSE IF Contains(SloganPhrase, Lower(message))
        THEN Str(strip_trailing_punctuation(Strip(after_phrase(Lower(message)))))
        ELSE NoneRec

extract_slogan(message) ==
    LET double == first_quoted("\"", message)
        single == first_quoted("'", message)
    IN  IF double # NoneRec THEN double
        ELSE IF single # NoneRec THEN single
        ELSE IF Contains(SloganPhrase, Lower(message))
        THEN Str(strip_trailing_punctuation(Strip(after_phrase(Lower(message)))))
        ELSE NoneRec

(***************************************************************************)
(* intent.py: classify, extract_keywords.                                  *)
(***************************************************************************)
\* the same, testing the story words first
classify_story_first(prompt) ==
    LET p == Lower(prompt)
    IN  IF AnyIn(<< "story", "tale", "narrative", "scene", "chapter", "plot", "fairytale",
                    "fable", "bedtime" >>, p) THEN "story"
        ELSE IF AnyIn(<< "poster", "quote", "signage", "sale", "ad", "advertisement", "flyer",
                    "banner", "sign", "billboard", "print" >>, p) THEN "poster"
        ELSE IF AnyIn(<< "transform", "convert", "change", "turn into", "make it",
                         "style transfer", "reimagine", "redesign" >>, p) THEN "transform"
        ELSE IF AnyIn(<< "mood", "feel", "emotion", "vibe", "atmosphere", "emotional",
                         "feeling", "sentiment" >>, p) THEN "mood"
        ELSE "image"

classify(prompt) ==
    LET p == Lower(prompt)
    IN  IF AnyIn(<< "poster", "quote", "signage", "sale", "ad", "advertisement", "flyer",
                    "banner", "sign", "billboard", "print" >>, p) THEN "poster"
        ELSE IF AnyIn(<< "story", "tale", "narrative", "scene", "chapter", "plot", "fairytale",
                         "fable", "bedtime" >>, p) THEN "story"
        ELSE IF AnyIn(<< "transform", "convert", "change", "turn into", "make it",
                         "style transfer", "reimagine", "redesign" >>, p) THEN "transform"
        ELSE IF AnyIn(<< "mood", "feel", "emotion", "vibe", "atmosphere", "emotional",
                         "feeling", "sentiment" >>, p) THEN "mood"
        ELSE "image"

\* extract_keywords' style_keywords, in the order of the dict
kw_style_names ==
    << "cinematic", "minimalist", "abstract", "realistic", "vintage", "watercolor", "oil",
       "sketch" >>

kw_style_keywords ==
    [ cinematic  |-> << "cinematic", "movie", "film", "dramatic" >>,
      minimalist |-> << "minimal", "simple", "clean", "modern" >>,
      abstract   |-> << "abstract", "abstract art", "non-representational" >>,
      realistic  |-> << "realistic", "real", "photorealistic", "lifelike" >>,
      vintage    |-> << "vintage", "retro", "old school", "classic" >>,
      watercolor |-> << "watercolor", "water colour", "aquarelle" >>,
      oil        |-> << "oil painting", "oil", "painterly" >>,
      sketch     |-> << "sketch", "drawing", "pencil", "line art" >> ]

mood_keywords ==
    << "happy", "sad", "peaceful", "energetic", "calm", "dramatic", "romantic", "dark",
       "bright", "warm", "cool", "mysterious", "dull", "boring", "exciting", "melancholic",
       "joyful", "motivated" >>

business_keywords ==
    << "product", "brand", "sale", "business", "professional", "marketing", "commercial",
       "corporate", "premium", "campaign" >>

color_keywords ==
    << "red", "blue", "green", "yellow", "purple", "orange", "pink", "brown", "black",
       "white", "gold", "silver", "pastel", "vibrant" >>

Range(xs) == {xs[k] : k \in 1..Len(xs)}

\* the words of the lower-cased message that the subjects are drawn from
important_words(message) ==
    SelectSeq(Split(Lower(message)),
              LAMBDA w : Len(w) > 3 /\ w \notin Range(mood_keywords \o color_keywords))

MaxSubjects == 3

\* the dicts extract_keywords can return: subjects is list(set(important_words))[:3]
extract_keywords(message) ==
    LET message_lower == Lower(message)
        held(terms)   == SelectSeq(terms, LAMBDA term : Contains(term, message_lower))
        styles        == SelectSeq(kw_style_names,
                                   LAMBDA s : AnyIn(kw_style_keywords[s], message_lower))
    IN  {[ subjects |-> subjects, styles |-> styles, moods |-> held(mood_keywords),
           business |-> held(business_keywords), colors |-> held(color_keywords) ] :
             subjects \in ListOfSetPrefix(Range(important_words(message)), MaxSubjects)}

(***************************************************************************)
(* SpecPure: extract_slogan, classify, extract_keywords and generate_story *)
(* called directly; calls is the log of the calls with their results.      *)
(***************************************************************************)
MaxPureCalls == 2

MsgBuyNow == "the slogan should be Buy Now."
SloganMessages ==
    { MsgBuyNow, "Poster saying \"Big Sale Today\"", "nothing quoted here",
      "say 'Hi' or \"Yo\"", "the slogan should be 'Go'", "mark 'Fresh' daily" }

ClassifyTexts ==
    { "a sad story", "Tell a Story about mood", "transform the feel", "good vibe", "cat",
      "transform this scene" }

KeywordTexts ==
    { "castle garden castle river bridge", "happy blue whale", "castle moat castle",
      "Dark Tower" }

PureMoods == {"happy"}

SloganTable == [m \in SloganMessages |-> extract_slogan(m)]
ClassifyTable == [t \in ClassifyTexts |-> classify(t)]
KeywordsTable == [t \in KeywordTexts |-> extract_keywords(t)]

PureCall(fn, arg, result) ==
    /\ Len(calls) < MaxPureCalls
    /\ calls' = Append(calls, [fn |-> fn, arg |-> arg, result |-> result])
    /\ UNCHANGED << pending_context, conversation_state, user_memory, reqs, reset_response,
                    clock >>

CallExtractSlogan == \E m \in SloganMessages : PureCall("extract_slogan", m, SloganTable[m])

CallClassify == \E t \in ClassifyTexts : PureCall("classify", t, ClassifyTable[t])

CallExtractKeywords ==
    \E t \in KeywordTexts :
        \E keywords \in KeywordsTable[t] : PureCall("extract_keywords", t, keywords)

CallGenerateStory ==
    \E prompt \in StoryTexts, mood \in PureMoods, choice \in 1..NumTemplates :
        PureCall("generate_story", prompt, generate_story(prompt, mood, choice))

NextPure ==
    \/ CallExtractSlogan
    \/ CallClassify
    \/ CallExtractKeywords
    \/ CallGenerateStory

SpecPure == Init /\ [][NextPure]_vars

(***************************************************************************)
(* main.py: generate_with_hf, the variant that retries one provider.  A    *)
(* running call is a frame in calls: the requests made so far, the replies *)
(* to them, the local list images and, once pc is "returned", the returned *)
(* list (images itself).                                                   *)
(***************************************************************************)
\* range(3)
HfAttempts == 3

\* what one requests.post can come to: a timeout, another exception (connection
\* error, body that is not JSON), or a reply with its status code, the "status" of
\* its JSON body and the payloads of its "images" list; a payload is "image" when it
\* decodes to an image and "malformed" when b64decode or Image.open raises on it
HfResponse(kind, status_code, status, images) ==
    [kind |-> kind, status_code |-> status_code, status |-> status, images |-> images]

HfImageLists == { << "image" >>, << "image", "image" >>, << "image", "malformed" >> }

HfResponses ==
    { HfResponse("timeout", 0, "", << >>),
      HfResponse("exception", 0, "", << >>),
      HfResponse("reply", 503, "", << >>),
      HfResponse("reply", 200, "error", << >>) }
    \cup { HfResponse("reply", 200, "success", l) : l \in HfImageLists }

\* the image decoded from payload k of the reply to request n; placeholder i
hf_image(n, k) == [src |-> "hf", attempt |-> n, index |-> k]
create_emergency_placeholder(i) == [src |-> "placeholder", attempt |-> 0, index |-> i]

\* the reply passes both tests of the try block
HfAccepted(response) ==
    response.kind = "reply" /\ response.status_code = 200 /\ response.status = "success"

\* the position of the first payload the decoding loop raises on (Len + 1: none)
FirstMalformed(payloads) ==
    IF \E k \in 1..Len(payloads) : payloads[k] = "malformed"
    THEN CHOOSE k \in 1..Len(payloads) :
            /\ payloads[k] = "malformed"
            /\ \A j \in 1..(k - 1) : payloads[j] # "malformed"
    ELSE Len(payloads) + 1

hf_frame(num_images) ==
    [ fn |-> "generate_with_hf", num_images |-> num_images, attempt |-> 0,
      responses |-> << >>, images |-> << >>, pc |-> "post" ]

\* one turn of the loop on the reply to its request, up to the next request or the
\* return: the decoding loop appends to images until a payload raises; the function
\* returns images when the reply was accepted and all of it decoded; after the third
\* turn the placeholders are appended to images
hf_attempt(f, response) ==
    LET n       == f.attempt + 1
        bad     == FirstMalformed(response.images)
        decoded == [k \in 1..(bad - 1) |-> hf_image(n, k)]
        images  == IF HfAccepted(response) THEN f.images \o decoded ELSE f.images
        returns == HfAccepted(response) /\ bad > Len(response.images)
        g       == [f EXCEPT !.attempt = n, !.responses = Append(@, response),
                             !.images = images]
    IN  IF returns
        THEN [g EXCEPT !.pc = "returned"]
        ELSE IF n < HfAttempts
        THEN g
        ELSE [g EXCEPT !.images = images \o [i \in 1..f.num_images |->
                                               create_emergency_placeholder(i - 1)],
                       !.pc = "returned"]

\* SpecHf: calls of generate_with_hf, one after the other
MaxHfCalls == 1
HfNumImages == {1, 2}

HfIdle == IF calls = << >> THEN TRUE ELSE calls[Len(calls)].pc = "returned"

HfCall ==
    \E num_images \in HfNumImages :
        /\ Len(calls) < MaxHfCalls
        /\ HfIdle
        /\ calls' = Append(calls, hf_frame(num_images))
        /\ UNCHANGED << pending_context, conversation_state, user_memory, reqs,
                        reset_response, clock >>

HfPostReturns ==
    \E response \in HfResponses :
        /\ ~HfIdle
        /\ calls' = [calls EXCEPT ![Len(calls)] = hf_attempt(@, response)]
        /\ UNCHANGED << pending_context, conversation_state, user_memory, reqs,
                        reset_response, clock >>

NextHf == HfCall \/ HfPostReturns

SpecHf == Init /\ [][NextHf]_vars

(***************************************************************************)
(* Vocabulary of the properties.                                           *)
(***************************************************************************)
\* the stored last-bot-message of a user is a pending question
QuestionPending(cs, user_id) == get_last_interaction(cs, user_id).type = "question"

\* this step starts a /chat request of the user (the handler ran to its first suspension)
Starts(user_id) ==
    /\ Len(reqs') = Len(reqs) + 1
    /\ reqs'[Len(reqs')].user_id = user_id

\* this step completes request i
Completes(i) == reqs[i].pc # "done" /\ reqs'[i].pc = "done"

\* this step answers a /reset of the user
Resets(user_id) ==
    /\ reset_response' # reset_response
    /\ reset_response'.type = "reset"
    /\ reset_response'.user_id = user_id

\* request r was processed as the answer to a pending question
IsClarification(r) == r.last_interaction.type = "question"

\* request r was answered with a clarifying question
IsAsked(r) == r.response.status = 200 /\ r.response.body.type = "question"

GeneratedTypes == {"image", "poster", "story"}

(***************************************************************************)
(* C1: with no question pending, a vague /chat message ("Tell me about my  *)
(* day") is answered with a result of type "question", and the user's      *)
(* stored last-bot-message is then a question record whose original_query  *)
(* is exactly that message.                                                *)
(***************************************************************************)
C1_VagueMessageAsksAndStores ==
    [][ \A u \in Users :
          ( /\ Starts(u)
            /\ ~QuestionPending(conversation_state, u)
            /\ is_vague_day_request(reqs'[Len(reqs')].message) )
          => LET r == reqs'[Len(reqs')]
                 stored == get_last_interaction(conversation_state', u)
             IN  /\ r.pc = "done"
                 /\ IsAsked(r)
                 /\ stored.type = "question"
                 /\ stored.original_query = r.message ]_vars

C1_Witness ==
    \E i \in 1..Len(reqs) :
        /\ reqs[i].message = MsgMyDay
        /\ ~IsClarification(reqs[i])
        /\ IsAsked(reqs[i])
        /\ get_last_interaction(conversation_state, reqs[i].user_id).type = "question"
        /\ get_last_interaction(conversation_state, reqs[i].user_id).original_query = MsgMyDay

(***************************************************************************)
(* C2: while a question is pending, the user's next message is handled as  *)
(* the clarification answer whatever its content (it is not answered with  *)
(* a question, even when it is vague itself); when that request completes, *)
(* the stored last-bot-message is its generated response; and a message    *)
(* that arrives when no question is stored is a fresh request, never       *)
(* another clarification answer.                                           *)
(***************************************************************************)
C2_AnswerThenIdle ==
    [][ \A u \in Users :
          /\ (Starts(u) /\ QuestionPending(conversation_state, u))
             => LET r == reqs'[Len(reqs')]
                IN  /\ IsClarification(r)
                    /\ r.pc # "done"
                    /\ r.gen.message =
                         get_last_interaction(conversation_state, u).original_query
                           \o ". The mood is " \o detected_mood_desc_of(r.message) \o "."
          /\ (Starts(u) /\ ~QuestionPending(conversation_state, u))
             => LET r == reqs'[Len(reqs')]
                IN  /\ ~IsClarification(r)
                    /\ IsAsked(r) <=> is_vague_day_request(r.message)
                    /\ ~IsAsked(r) => r.gen.message = r.message
          /\ \A i \in 1..Len(reqs) :
               (reqs[i].user_id = u /\ IsClarification(reqs[i]) /\ Completes(i))
               => /\ ~QuestionPending(conversation_state', u)
                  /\ get_last_interaction(conversation_state', u) = reqs'[i].response.body
                  /\ reqs'[i].response.body.type \in GeneratedTypes ]_vars

\* a question, a vague message handled as its answer, and a third message that read the
\* answer's generated response
C2_Witness ==
    \E i, j, k \in 1..Len(reqs) :
        /\ i < j /\ j < k
        /\ IsAsked(reqs[i])
        /\ IsClarification(reqs[j]) /\ is_vague_day_request(reqs[j].message)
        /\ reqs[j].pc = "done"
        /\ reqs[k].last_interaction = reqs[j].response.body
        /\ ~IsClarification(reqs[k])

(***************************************************************************)
(* C3: of two concurrent /chat requests of one user, at most one reads a   *)
(* given pending question and is processed as its answer.                  *)
(***************************************************************************)
C3_QuestionConsumedOnce ==
    \A i, j \in 1..Len(reqs) :
        ( /\ i # j
          /\ reqs[i].user_id = reqs[j].user_id
          /\ IsClarification(reqs[i])
          /\ IsClarification(reqs[j]) )
        => reqs[i].last_interaction.asked_at # reqs[j].last_interaction.asked_at

(***************************************************************************)
(* C4: the /chat requests of one user are serialized: a request begins     *)
(* only when every earlier request of that user has fully run.             *)
(***************************************************************************)
C4_SerializedPerUser ==
    \A i, j \in 1..Len(reqs) :
        (i < j /\ reqs[i].user_id = reqs[j].user_id) => reqs[i].pc = "done"

(***************************************************************************)
(* C5: when a user's vague "my day" message is answered with a question,   *)
(* the mood answer that follows it is handled as the clarification answer  *)
(* to that question.                                                       *)
(***************************************************************************)
C5_AnswerFollowsQuestion ==
    \A i, j \in 1..Len(reqs) :
        ( /\ i < j
          /\ reqs[i].user_id = reqs[j].user_id
          /\ \A k \in (i + 1)..(j - 1) : reqs[k].user_id # reqs[i].user_id
          /\ reqs[i].message = MsgMyDay /\ IsAsked(reqs[i])
          /\ reqs[j].message \in {MsgPeaceful, MsgHectic} )
        => /\ IsClarification(reqs[j])
           /\ reqs[j].last_interaction.original_query = MsgMyDay

(***************************************************************************)
(* C6: a step of a /chat or /reset request of one user leaves the          *)
(* mood/event context, the stored last-bot-message and the memory log of   *)
(* every other user unchanged.                                             *)
(***************************************************************************)
\* the entry of the user in dict d, as a list of at most one element
Entry(d, user_id) == IF user_id \in DOMAIN d THEN << d[user_id] >> ELSE << >>

\* this step belongs to a request of the user
StepOf(user_id) ==
    \/ Starts(user_id)
    \/ \E i \in 1..Len(reqs) : reqs[i].user_id = user_id /\ reqs'[i] # reqs[i]
    \/ Resets(user_id)

C6_OtherUsersUntouched ==
    [][ \A b \in Users :
          ( \/ Entry(pending_context', b) # Entry(pending_context, b)
            \/ Entry(conversation_state', b) # Entry(conversation_state, b)
            \/ Entry(user_memory', b) # Entry(user_memory, b) )
          => StepOf(b) ]_vars

\* both users hold a mood, a stored message and a log, and they differ
C6_Witness ==
    /\ \A u \in Users : u \in DOMAIN pending_context /\ "mood" \in DOMAIN pending_context[u]
    /\ \A u \in Users : u \in DOMAIN conversation_state /\ u \in DOMAIN user_memory
    /\ \E a, b \in Users :
         /\ pending_context[a] # pending_context[b]
         /\ conversation_state[a] # conversation_state[b]
         /\ user_memory[a] # user_memory[b]

(***************************************************************************)
(* C7: every generation result carries exactly the requested number of     *)
(* images, 2 for art, poster, transform, business and personal and 3 for   *)
(* story (one per scene, 3 scenes), whatever backend calls failed.         *)
(***************************************************************************)
RequestedCount(mode) == IF mode = "story" THEN 3 ELSE 2

C7_RequestedImageCount ==
    \A i \in 1..Len(reqs) :
        (reqs[i].pc = "done" /\ ~IsAsked(reqs[i]))
        => LET body == reqs[i].response.body
           IN  /\ body.type \in GeneratedTypes
               /\ Len(body.content.images) = RequestedCount(reqs[i].mode)
               /\ reqs[i].mode = "story" =>
                    Len(body.content.scenes) = 3 /\ Len(body.content.images) = 3

\* a story whose every backend call failed
C7_Witness ==
    /\ \E i \in 1..Len(reqs) :
         /\ reqs[i].pc = "done" /\ reqs[i].mode = "story"
         /\ reqs[i].gen.outcomes = << "failed", "failed", "failed" >>
         /\ Len(reqs[i].response.body.content.images) = 3

(***************************************************************************)
(* C8: a failed backend call never makes the request fail: no /chat        *)
(* request is answered with type "error", a request that generates         *)
(* returns type image, poster or story, and the image of every failed      *)
(* call is a placeholder.                                                  *)
(***************************************************************************)
C8_FailuresBecomePlaceholders ==
    \A i \in 1..Len(reqs) :
        /\ reqs[i].response.status # 500
        /\ reqs[i].response.body.type # "error"
        /\ (reqs[i].pc = "done" /\ ~IsAsked(reqs[i]))
           => LET body == reqs[i].response.body
                  log  == reqs[i].gen.outcomes
              IN  /\ reqs[i].response.status = 200
                  /\ body.type \in GeneratedTypes
                  /\ \A k \in 1..Len(log) :
                       log[k] = "failed" =>
                         /\ k \in 1..Len(body.content.images)
                         /\ body.content.images[k] \in {"base64:placeholder", "None"}

C8_Witness ==
    \E i \in 1..Len(reqs) :
        /\ reqs[i].pc = "done"
        /\ reqs[i].response.status = 200
        /\ reqs[i].response.body.type = "poster"
        /\ reqs[i].gen.outcomes = << "failed", "ok" >>
        /\ reqs[i].response.body.content.images = << "base64:placeholder", "base64:image" >>

(***************************************************************************)
(* C9: POST /reset answers {status: "ok"}, clears the user's mood/event    *)
(* context and deletes the user's stored last-bot-message.                 *)
(***************************************************************************)
C9_ResetClearsUser ==
    [][ \A u \in Users :
          Resets(u)
          => /\ reset_response'.status = 200
             /\ Entry(pending_context', u) \in {<< >>, << EmptyDict >>}
             /\ u \notin DOMAIN conversation_state' ]_vars

(***************************************************************************)
(* C10: after a /reset of a user, needs_context(user) is true, and the     *)
(* user's next "my day" message is answered with a clarifying question.    *)
(***************************************************************************)
C10_ResetThenAsksAgain ==
    [][ \A u \in Users :
          /\ Resets(u) => needs_context(pending_context', u)
          /\ ( /\ reset_response.type = "reset" /\ reset_response.user_id = u
               /\ Starts(u)
               /\ reqs'[Len(reqs')].message = MsgMyDay )
             => IsAsked(reqs'[Len(reqs')]) ]_vars

(***************************************************************************)
(* C11: a /chat request that fails with an internal error leaves the       *)
(* user's conversational state as it was before the request: the stored    *)
(* last-bot-message, the tracked mood and the tracked event are unchanged.  *)
(* Stated for a request that fails within one step, and for a first        *)
(* request that fails while suspended (before it, nothing was recorded).    *)
(***************************************************************************)
\* the user's mood and event, as a dict without the keys that are absent
Tracked(ctx, user_id) == IF user_id \in DOMAIN ctx THEN ctx[user_id] ELSE EmptyDict

IsFailed(r) == r.pc = "done" /\ r.response.status = 500

C11_FailureLeavesStateUnchanged ==
    [][ \A u \in Users :
          /\ (Starts(u) /\ IsFailed(reqs'[Len(reqs')]))
             => /\ Tracked(pending_context', u) = Tracked(pending_context, u)
                /\ get_last_interaction(conversation_state', u)
                     = get_last_interaction(conversation_state, u)
          /\ (Len(reqs') = 1 /\ reqs'[1].user_id = u /\ IsFailed(reqs'[1]))
             => /\ Tracked(pending_context', u) = EmptyDict
                /\ get_last_interaction(conversation_state', u) = NoneRec ]_vars

(***************************************************************************)
(* C12: an exception raised anywhere in the processing of a /chat request  *)
(* (memory update, context update, clarification processing, generation)   *)
(* is answered by the handler itself with HTTP 500 and the body            *)
(* {type: "error", content: {text}}; the server's unhandled-exception      *)
(* answer is never sent.                                                   *)
(***************************************************************************)
C12_ExceptionsAnsweredAsError ==
    \A i \in 1..Len(reqs) :
        (reqs[i].pc = "done" /\ reqs[i].response.status # 200)
        => /\ reqs[i].response.status = 500
           /\ reqs[i].response # UnhandledResponse
           /\ reqs[i].response.body.type = "error"
           /\ \E e \in Exceptions :
                reqs[i].response.body.content = [text |-> "Generation failed: " \o e]

\* one request failed in update_memory (nothing logged), another while suspended
C12_Witness ==
    \E i, j \in 1..Len(reqs) :
        /\ IsFailed(reqs[i]) /\ reqs[i].gen = NoneRec
        /\ reqs[i].user_id \in DOMAIN user_memory
        /\ Len(user_memory[reqs[i].user_id]) < Len(reqs)
        /\ IsFailed(reqs[j]) /\ reqs[j].gen # NoneRec

(***************************************************************************)
(* C13: a user has at most one stored last-bot-message, and every /chat    *)
(* request that completes without error replaces it by the record of its   *)
(* own reply: a question record (with the request's message) when the      *)
(* reply is a question, the generated result otherwise.                    *)
(***************************************************************************)
C13_ReplyReplacesStoredMessage ==
    [][ \A u \in Users :
          /\ u \in DOMAIN conversation_state'
             => DOMAIN conversation_state'[u] \subseteq {"last_bot_message"}
          /\ (Starts(u) /\ IsAsked(reqs'[Len(reqs')]))
             => get_last_interaction(conversation_state', u)
                  = [type |-> "question", original_query |-> reqs'[Len(reqs')].message,
                     asked_at |-> clock]
          /\ \A i \in 1..Len(reqs) :
               (reqs[i].user_id = u /\ Completes(i) /\ reqs'[i].response.status = 200)
               => /\ reqs'[i].response.body.type \in GeneratedTypes
                  /\ get_last_interaction(conversation_state', u) = reqs'[i].response.body
        ]_vars

\* a generated result has replaced the question of an earlier request
C13_Witness ==
    \E i, j \in 1..Len(reqs) :
        /\ i < j /\ reqs[i].user_id = reqs[j].user_id
        /\ IsAsked(reqs[i])
        /\ reqs[j].pc = "done" /\ reqs[j].response.status = 200
        /\ reqs[j].response.body.type = "story"
        /\ conversation_state[reqs[j].user_id] = [last_bot_message |-> reqs[j].response.body]

(***************************************************************************)
(* C14: when a clarification answer is processed, the message passed to    *)
(* generation is exactly "{original_query}. The mood is {description}.",   *)
(* with original_query the message stored with the pending question and    *)
(* description that of the first keyword, in the order of the mood         *)
(* mapping, that occurs in the answer, or "thoughtful and reflective".     *)
(***************************************************************************)
\* keyword k of the mapping occurs in the lower-cased answer, and none before it does
FirstMappingHit(k, answer) ==
    /\ Contains(mood_map_keys[k], Lower(answer))
    /\ \A j \in 1..(k - 1) : ~Contains(mood_map_keys[j], Lower(answer))

MappingHits == [m \in AllMessages |-> {k \in 1..Len(mood_map_keys) : FirstMappingHit(k, m)}]

C14_EnhancedMessage ==
    [][ \A u \in Users :
          (Starts(u) /\ QuestionPending(conversation_state, u))
          => LET r        == reqs'[Len(reqs')]
                 question == get_last_interaction(conversation_state, u)
                 hits     == MappingHits[r.message]
             IN  /\ r.gen # NoneRec
                 /\ \A k \in hits :
                      r.gen.message = question.original_query \o ". The mood is "
                                        \o mood_map_descs[k] \o "."
                 /\ hits = {} =>
                      r.gen.message = question.original_query
                                        \o ". The mood is thoughtful and reflective." ]_vars

\* the answer names "calm" before "tired"; the mapping lists "tired" first
C14_Witness ==
    \E i \in 1..Len(reqs) :
        /\ IsClarification(reqs[i])
        /\ reqs[i].message = MsgCalmTired
        /\ reqs[i].gen.message = "Tell me about my day. The mood is tired and exhausted."

(***************************************************************************)
(* C15: after a clarification answer is processed, the user's tracked mood *)
(* is the mood-mapping keyword detected in the answer, or "thoughtful"     *)
(* when none occurs, whatever mood update_context recorded from the same   *)
(* message earlier in the request.                                         *)
(***************************************************************************)
C15_MoodOfTheAnswer ==
    [][ \A u \in Users :
          (Starts(u) /\ QuestionPending(conversation_state, u))
          => LET hits == MappingHits[reqs'[Len(reqs')].message]
                 mood == Tracked(pending_context', u)["mood"]
             IN  /\ "mood" \in DOMAIN Tracked(pending_context', u)
                 /\ \A k \in hits : mood = mood_map_keys[k]
                 /\ hits = {} => mood = "thoughtful" ]_vars

\* update_context recorded "hectic" from the answer; the tracked mood is "thoughtful"
C15_Witness ==
    \E i \in 1..Len(reqs) :
        /\ i = Len(reqs)
        /\ IsClarification(reqs[i])
        /\ reqs[i].message = MsgHectic
        /\ ScanTable[MsgHectic]["mood"] = "hectic"
        /\ pending_context[reqs[i].user_id]["mood"] = "thoughtful"

(***************************************************************************)
(* C17: with no question pending, a /chat message is answered with a       *)
(* clarifying question if and only if its lower-cased text contains        *)
(* "my day" or "today" and none of happy, sad, dull, boring, energetic,    *)
(* calm; every other message goes straight to generation.                  *)
(***************************************************************************)
VagueByDefinition ==
    [m \in AllMessages |->
        /\ Contains("my day", Lower(m)) \/ Contains("today", Lower(m))
        /\ \A w \in {"happy", "sad", "dull", "boring", "energetic", "calm"} :
              ~Contains(w, Lower(m))]

C17_VagueIffDayWithoutMood ==
    [][ \A u \in Users :
          (Starts(u) /\ ~QuestionPending(conversation_state, u))
          => LET r == reqs'[Len(reqs')]
             IN  /\ IsAsked(r) <=> VagueByDefinition[r.message]
                 /\ ~VagueByDefinition[r.message]
                    => /\ r.pc = "hf_post"
                       /\ r.gen.message = r.message
                       /\ r.response = NoResponse ]_vars

\* "today was hectic" was asked about, "TODAY I was Happy" went to generation
C17_Witness ==
    \E i, j \in 1..Len(reqs) :
        /\ reqs[i].message = MsgHappyToday /\ ~IsClarification(reqs[i]) /\ ~IsAsked(reqs[i])
        /\ reqs[i].gen # NoneRec
        /\ reqs[j].message = MsgHectic /\ ~IsClarification(reqs[j]) /\ IsAsked(reqs[j])

(***************************************************************************)
(* C16: a /chat request that returns a result of type "question" makes no  *)
(* call to the generation orchestrator and no image-backend call: it       *)
(* holds no generation frame, is complete when the question is returned,   *)
(* and takes no further step.                                              *)
(***************************************************************************)
C16_QuestionWithoutGeneration ==
    [][ /\ \A i \in 1..Len(reqs') :
             IsAsked(reqs'[i]) => reqs'[i].gen = NoneRec /\ reqs'[i].pc = "done"
        /\ \A i \in 1..Len(reqs) : IsAsked(reqs[i]) => reqs'[i] = reqs[i] ]_vars

\* the backend has been called for another request of the user, not for the question
C16_Witness ==
    \E i, j \in 1..Len(reqs) :
        /\ IsAsked(reqs[i]) /\ reqs[i].gen = NoneRec
        /\ reqs[j].user_id = reqs[i].user_id
        /\ reqs[j].gen # NoneRec
        /\ reqs[j].gen.outcomes # << >>

(***************************************************************************)
(* C18: for every user and every sequence of update_context,               *)
(* update_context_with_mood and clear_context calls, needs_context(user)   *)
(* is true exactly when no mood has been recorded for the user since the   *)
(* user's last clear_context (or ever).                                    *)
(***************************************************************************)
\* the text holds a word of the mood vocabulary, of the event vocabulary
HasMoodWord == [m \in AllMessages |-> \E k \in 1..Len(ctx_moods) : Contains(ctx_moods[k], Lower(m))]
HasEventWord ==
    [m \in AllMessages |-> \E k \in 1..Len(ctx_events) : Contains(ctx_events[k], Lower(m))]

RecordsMood(call) ==
    \/ call.fn = "update_context_with_mood"
    \/ call.fn = "update_context" /\ HasMoodWord[call.arg]

RecordedSinceClear(user_id) ==
    \E k \in 1..Len(calls) :
        /\ calls[k].user_id = user_id
        /\ RecordsMood(calls[k])
        /\ \A j \in (k + 1)..Len(calls) :
              ~(calls[j].user_id = user_id /\ calls[j].fn = "clear_context")

C18_NeedsContextUntilMood ==
    \A u \in Users : needs_context(pending_context, u) <=> ~RecordedSinceClear(u)

\* one user's mood was recorded and cleared; the other's is recorded
C18_Witness ==
    \E a, b \in Users :
        /\ a # b
        /\ \E k \in 1..Len(calls) : calls[k].user_id = a /\ RecordsMood(calls[k])
        /\ calls[Len(calls)] = Call("clear_context", a, "")
        /\ needs_context(pending_context, a)
        /\ ~needs_context(pending_context, b)

(***************************************************************************)
(* C19: update_context on a message with one or more mood vocabulary words *)
(* records the matching word that comes last in the vocabulary order (not  *)
(* the one last in the message), and likewise the last matching event      *)
(* word in event-vocabulary order.                                         *)
(***************************************************************************)
LastMatch(words, message) ==
    CHOOSE k \in 1..Len(words) :
        /\ Contains(words[k], Lower(message))
        /\ \A j \in (k + 1)..Len(words) : ~Contains(words[j], Lower(message))

LastMoodWord ==
    [m \in {x \in AllMessages : HasMoodWord[x]} |-> ctx_moods[LastMatch(ctx_moods, m)]]
LastEventWord ==
    [m \in {x \in AllMessages : HasEventWord[x]} |-> ctx_events[LastMatch(ctx_events, m)]]

\* this step is a direct call of fn
Calls(fn) == Len(calls') = Len(calls) + 1 /\ calls'[Len(calls')].fn = fn

C19_LastVocabularyMatchWins ==
    [][ Calls("update_context")
        => LET call == calls'[Len(calls')]
               d    == Tracked(pending_context', call.user_id)
           IN  /\ HasMoodWord[call.arg]
                  => "mood" \in DOMAIN d /\ d["mood"] = LastMoodWord[call.arg]
               /\ HasEventWord[call.arg]
                  => "event" \in DOMAIN d /\ d["event"] = LastEventWord[call.arg] ]_vars

\* "calm but tired" recorded calm, "today at work" recorded today
C19_Witness ==
    \E u \in Users :
        /\ Len(calls) >= 2
        /\ calls[Len(calls) - 1] = Call("update_context", u, MsgCalmTired)
        /\ calls[Len(calls)] = Call("update_context", u, MsgTodayWork)
        /\ pending_context[u] = [mood |-> "calm", event |-> "today"]

(***************************************************************************)
(* C20: a recorded mood persists: update_context with a message without    *)
(* mood word leaves the user's mood unchanged, and without event word the  *)
(* event; a user's mood changes only by an update_context of that user     *)
(* that matches a mood word, by update_context_with_mood or by             *)
(* clear_context.                                                          *)
(***************************************************************************)
\* the value under key in the user's dict, as a list of at most one element
Field(ctx, user_id, key) ==
    IF key \in DOMAIN Tracked(ctx, user_id) THEN << Tracked(ctx, user_id)[key] >> ELSE << >>

C20_MoodPersists ==
    [][ \A u \in Users :
          /\ (Calls("update_context") /\ calls'[Len(calls')].user_id = u)
             => LET call == calls'[Len(calls')]
                IN  /\ ~HasMoodWord[call.arg]
                       => Field(pending_context', u, "mood") = Field(pending_context, u, "mood")
                    /\ ~HasEventWord[call.arg]
                       => Field(pending_context', u, "event") = Field(pending_context, u, "event")
          /\ Field(pending_context', u, "mood") # Field(pending_context, u, "mood")
             => /\ Len(calls') = Len(calls) + 1
                /\ calls'[Len(calls')].user_id = u
                /\ \/ RecordsMood(calls'[Len(calls')])
                   \/ calls'[Len(calls')].fn = "clear_context" ]_vars

\* the mood of an earlier call is still there after a message without mood word
C20_Witness ==
    \E u \in Users :
        /\ Len(calls) = 3
        /\ calls[1] = Call("update_context", u, MsgCat)
        /\ calls[2] = Call("update_context", u, MsgTodayWork)
        /\ calls[3].fn = "needs_context"
        /\ pending_context[u] = [mood |-> "happy", event |-> "today"]

(***************************************************************************)
(* C21: each generation request calls the image backend exactly once per   *)
(* required image, with no retry of a failed call: 2 calls for art,        *)
(* poster, transform, business and personal, 3 calls (one per scene) for   *)
(* story.  While the request runs it has made at most that many calls.     *)
(***************************************************************************)
C21_OneCallPerImage ==
    \A i \in 1..Len(reqs) :
        reqs[i].gen # NoneRec
        => /\ Len(reqs[i].gen.outcomes) <= RequestedCount(reqs[i].mode)
           /\ reqs[i].pc = "done"
              => Len(reqs[i].gen.outcomes) = RequestedCount(reqs[i].mode)

\* a two-image request whose first call failed, and made two calls
C21_Witness ==
    \E i \in 1..Len(reqs) :
        /\ reqs[i].pc = "done" /\ reqs[i].mode = "transform"
        /\ reqs[i].gen.outcomes = << "failed", "ok" >>

(***************************************************************************)
(* C23: every /chat request eventually returns a response, provided each   *)
(* call it is suspended on returns or times out: no path of chat,          *)
(* process_clarified_request, generate_content or generate_images_hf       *)
(* waits or loops without bound.                                           *)
(***************************************************************************)
C23_EveryRequestReturns ==
    \A i \in 1..MaxLiveReqs :
        (Len(reqs) >= i)
        ~> (Len(reqs) >= i /\ reqs[i].pc = "done" /\ reqs[i].response.status \in {200, 500})

\* a story request has returned after three failed backend calls
C23_Witness ==
    \E i \in 1..Len(reqs) :
        /\ reqs[i].mode = "story"
        /\ reqs[i].pc = "done" /\ reqs[i].response.status = 200
        /\ IsClarification(reqs[i])
        /\ reqs[i].gen # NoneRec
        /\ reqs[i].gen.outcomes = << "failed", "failed", "failed" >>

(***************************************************************************)
(* C22: generate_with_hf makes at most 3 requests to the provider; as soon *)
(* as one attempt succeeds it returns that attempt's images, and when all  *)
(* 3 attempts fail it returns exactly num_images images, all of them       *)
(* placeholders.                                                           *)
(***************************************************************************)
\* attempt n of the call succeeded: its reply was accepted and all of it decoded
HfSucceeded(f, n) ==
    /\ HfAccepted(f.responses[n])
    /\ FirstMalformed(f.responses[n].images) > Len(f.responses[n].images)

C22_RetryThenPlaceholders ==
    \A c \in 1..Len(calls) :
        LET f == calls[c]
            n == Len(f.responses)
        IN  /\ n <= 3
            /\ f.pc # "returned" => \A k \in 1..n : ~HfSucceeded(f, k)
            /\ f.pc = "returned" =>
                 IF HfSucceeded(f, n)
                 THEN f.images = [k \in 1..Len(f.responses[n].images) |-> hf_image(n, k)]
                 ELSE /\ n = 3
                      /\ Len(f.images) = f.num_images
                      /\ \A k \in 1..Len(f.images) : f.images[k].src = "placeholder"

(***************************************************************************)
(* C24: after any sequence of update_memory calls for a user, the memory   *)
(* log holds at most 50 entries, and they are exactly the most recent      *)
(* min(n, 50) messages in arrival order (the oldest are dropped first).    *)
(***************************************************************************)
\* the messages of the update_memory calls for the user among the first k calls
LoggedBefore(user_id, k) ==
    LET made == SelectSeq(SubSeq(calls, 1, k),
                          LAMBDA c : c.fn = "update_memory" /\ c.user_id = user_id)
    IN  [j \in 1..Len(made) |-> made[j].arg]

MemoryLog(user_id) == IF user_id \in DOMAIN user_memory THEN user_memory[user_id] ELSE << >>

C24_MemoryWindow ==
    \A u \in Users :
        LET msgs == LoggedBefore(u, Len(calls))
            n    == Len(msgs)
            log  == MemoryLog(u)
        IN  /\ Len(log) <= 50
            /\ Len(log) = IF n < 50 THEN n ELSE 50
            /\ \A k \in 1..Len(log) : log[k].message = msgs[n - Len(log) + k]

\* 52 messages were logged, the last one after two that were not greetings
C24_Witness ==
    /\ Len(LoggedBefore("u1", Len(calls))) = 52
    /\ Len(MemoryLog("u1")) = 50
    /\ MemoryLog("u1")[48].message = MsgFilm
    /\ MemoryLog("u1")[49].message = MsgRetro
    /\ MemoryLog("u1")[50].message = MsgOld

(***************************************************************************)
(* C25: get_user_preferences returns as favorite_style the style keyword   *)
(* that occurs most frequently in the user's last 10 logged messages, and  *)
(* None when none of those messages contains a style keyword; messages     *)
(* older than the last 10 never influence the result.                      *)
(***************************************************************************)
\* the last 10 messages logged for the user before call k
LastTenBefore(user_id, k) == LastN(LoggedBefore(user_id, k - 1), 10)

\* the number of places of the text where the word starts
Occurrences(word, text) ==
    Cardinality({i \in 1..(Len(text) - Len(word) + 1) :
                    SubSeq(text, i, i + Len(word) - 1) = word})

\* the occurrences of the style's keywords in one lower-cased message
KeywordOccurrences ==
    [m \in MemMessages |->
        [s \in DOMAIN style_keywords |->
            LET kws == style_keywords[s]
                occ == [k \in 1..Len(kws) |-> Occurrences(kws[k], Lower(m))]
            IN  IF Len(kws) = 2 THEN occ[1] + occ[2] ELSE occ[1] + occ[2] + occ[3]]]

RECURSIVE OccurrencesIn(_, _)
OccurrencesIn(msgs, style) ==
    IF msgs = << >> THEN 0
    ELSE KeywordOccurrences[Head(msgs)][style] + OccurrencesIn(Tail(msgs), style)

\* the number of the messages that hold a keyword of the style
MessagesWith(msgs, style) ==
    Cardinality({k \in 1..Len(msgs) : KeywordOccurrences[msgs[k]][style] > 0})

IsPreferencesCall(k) == calls[k].fn = "get_user_preferences"

\* as stated: the returned style is the one whose keywords occur most often
C25_MostFrequentKeyword ==
    \A k \in 1..Len(calls) :
        IsPreferencesCall(k) =>
            LET msgs  == LastTenBefore(calls[k].user_id, k)
                style == calls[k].result.favorite_style
            IN  IF \A s \in DOMAIN style_keywords : OccurrencesIn(msgs, s) = 0
                THEN style = NoneRec
                ELSE /\ style # NoneRec
                     /\ \A s \in DOMAIN style_keywords :
                           OccurrencesIn(msgs, style.value) >= OccurrencesIn(msgs, s)

\* amended: the returned style is one of those whose keywords are held by the largest
\* number of the last 10 messages, each message counting once for a style
C25_StyleOfMostMessages ==
    \A k \in 1..Len(calls) :
        IsPreferencesCall(k) =>
            LET msgs  == LastTenBefore(calls[k].user_id, k)
                style == calls[k].result.favorite_style
            IN  IF \A s \in DOMAIN style_keywords : MessagesWith(msgs, s) = 0
                THEN style = NoneRec
                ELSE /\ style # NoneRec
                     /\ \A s \in DOMAIN style_keywords :
                           MessagesWith(msgs, style.value) >= MessagesWith(msgs, s)

\* "film film film" and two vintage messages are among the last 10: vintage is returned
C25_Witness ==
    \E k \in 1..Len(calls) :
        /\ IsPreferencesCall(k)
        /\ Len(LastTenBefore("u1", k)) = 10
        /\ LastTenBefore("u1", k)[1] = MsgFilm
        /\ LastTenBefore("u1", k)[9] = MsgRetro
        /\ LastTenBefore("u1", k)[10] = MsgOld
        /\ calls[k].user_id = "u1"
        /\ calls[k].result.favorite_style = Str("vintage")

(***************************************************************************)
(* C26: for a message with no quoted substring that contains the phrase    *)
(* "slogan should be", extract_slogan returns the text that follows the    *)
(* phrase as it is written in the message, with trailing punctuation       *)
(* stripped: extract_slogan("the slogan should be Buy Now.") returns       *)
(* "Buy Now".                                                              *)
(***************************************************************************)
\* the positions of the character in the text
Positions(ch, text) == {i \in 1..Len(text) : SubSeq(text, i, i) = ch}

HasQuoted(ch, text) == Cardinality(Positions(ch, text)) >= 2

HasPhrase(text) == Contains("slogan should be", Lower(text))

\* the text that follows the phrase, as written, without the blanks around it and
\* without one closing ".", "!" or "?"
WrittenAfterPhrase(text) ==
    LET i == CHOOSE i \in 1..Len(text) :
                /\ SubSeq(Lower(text), i, i + 15) = "slogan should be"
                /\ \A j \in 1..(i - 1) : SubSeq(Lower(text), j, j + 15) # "slogan should be"
    IN  strip_trailing_punctuation(Strip(SubSeq(text, i + 16, Len(text))))

IsSloganCall(k) == calls[k].fn = "extract_slogan"

C26_SloganAsWritten ==
    \A k \in 1..Len(calls) :
        ( /\ IsSloganCall(k)
          /\ ~HasQuoted("\"", calls[k].arg) /\ ~HasQuoted("'", calls[k].arg)
          /\ HasPhrase(calls[k].arg) )
        => /\ calls[k].result = Str(WrittenAfterPhrase(calls[k].arg))
           /\ calls[k].arg = MsgBuyNow => calls[k].result = Str("Buy Now")

(***************************************************************************)
(* C27: extract_slogan applies its strategies in a fixed precedence: the   *)
(* first double-quoted substring if the message has one, else the first    *)
(* single-quoted substring, else the text after "slogan should be", else   *)
(* None; a later strategy is never used when an earlier one matches.  (The *)
(* letter case of the text after the phrase is the subject of C26 and is   *)
(* left open here.)                                                        *)
(***************************************************************************)
\* the text between the first and the second character ch of the text
FirstBetween(ch, text) ==
    LET first  == CHOOSE i \in Positions(ch, text) : \A j \in Positions(ch, text) : i <= j
        others == Positions(ch, text) \ {first}
        second == CHOOSE i \in others : \A j \in others : i <= j
    IN  SubSeq(text, first + 1, second - 1)

C27_SloganPrecedence ==
    \A k \in 1..Len(calls) :
        IsSloganCall(k) =>
            LET text   == calls[k].arg
                result == calls[k].result
            IN  IF HasQuoted("\"", text) THEN result = Str(FirstBetween("\"", text))
                ELSE IF HasQuoted("'", text) THEN result = Str(FirstBetween("'", text))
                ELSE IF HasPhrase(text)
                THEN /\ result # NoneRec
                     /\ Lower(result.value) = Lower(WrittenAfterPhrase(text))
                ELSE result = NoneRec

\* a message whose single-quoted text comes before its double-quoted text gave the
\* double-quoted one, and a message with the phrase and a single-quoted text gave the
\* single-quoted one
C27_Witness ==
    \E k, j \in 1..Len(calls) :
        /\ IsSloganCall(k) /\ calls[k].arg = "say 'Hi' or \"Yo\"" /\ calls[k].result = Str("Yo")
        /\ IsSloganCall(j) /\ calls[j].arg = "the slogan should be 'Go'"
        /\ calls[j].result = Str("Go")

(***************************************************************************)
(* C28: classify returns the mode of the first keyword group, in the fixed *)
(* order poster, story, transform, mood, that has a keyword occurring as a *)
(* substring of the lower-cased text, and "image" when no group matches; a *)
(* text matching several groups always gets the earliest one.              *)
(***************************************************************************)
ClassifyKeywords ==
    [ poster    |-> { "poster", "quote", "signage", "sale", "ad", "advertisement", "flyer",
                      "banner", "sign", "billboard", "print" },
      story     |-> { "story", "tale", "narrative", "scene", "chapter", "plot", "fairytale",
                      "fable", "bedtime" },
      transform |-> { "transform", "convert", "change", "turn into", "make it",
                      "style transfer", "reimagine", "redesign" },
      mood      |-> { "mood", "feel", "emotion", "vibe", "atmosphere", "emotional",
                      "feeling", "sentiment" } ]

\* the groups that have a keyword in the lower-cased text
GroupsHit == 
    [t \in ClassifyTexts |->
        {g \in DOMAIN ClassifyKeywords : \E w \in ClassifyKeywords[g] : Contains(w, Lower(t))}]

IsClassifyCall(k) == calls[k].fn = "classify"

C28_FirstGroupWins ==
    \A k \in 1..Len(calls) :
        IsClassifyCall(k) =>
            LET hit == GroupsHit[calls[k].arg]
            IN  calls[k].result = IF "poster" \in hit THEN "poster"
                                  ELSE IF "story" \in hit THEN "story"
                                  ELSE IF "transform" \in hit THEN "transform"
                                  ELSE IF "mood" \in hit THEN "mood"
                                  ELSE "image"

\* "a sad story" holds "ad" and "story" and is a poster; "Tell a Story about mood" holds
\* "story" and "mood" and is a story
C28_Witness ==
    \E k, j \in 1..Len(calls) :
        /\ IsClassifyCall(k) /\ calls[k].arg = "a sad story"
        /\ GroupsHit["a sad story"] = {"poster", "story"}
        /\ calls[k].result = "poster"
        /\ IsClassifyCall(j) /\ calls[j].arg = "Tell a Story about mood"
        /\ GroupsHit["Tell a Story about mood"] = {"story", "mood"}
        /\ calls[j].result = "story"

(***************************************************************************)
(* C29: extract_keywords returns as subjects the first 3 distinct long     *)
(* words of the message in their order of first occurrence                 *)
(* (order-preserving de-duplication, capped at 3), excluding words of the  *)
(* known keyword categories.                                               *)
(***************************************************************************)
\* the first n distinct values of the sequence, in their order of first occurrence
RECURSIVE FirstDistinct(_, _, _)
FirstDistinct(xs, n, acc) ==
    IF xs = << >> \/ Len(acc) = n THEN acc
    ELSE FirstDistinct(Tail(xs), n,
                       IF Head(xs) \in Range(acc) THEN acc ELSE Append(acc, Head(xs)))

\* the words of more than 3 letters that are no mood and no colour keyword
LongWords ==
    [t \in KeywordTexts |->
        SelectSeq(Split(Lower(t)),
                  LAMBDA w : Len(w) > 3 /\ w \notin Range(mood_keywords)
                             /\ w \notin Range(color_keywords))]

IsKeywordsCall(k) == calls[k].fn = "extract_keywords"

C29_SubjectsInOrder ==
    \A k \in 1..Len(calls) :
        IsKeywordsCall(k) =>
            calls[k].result.subjects = FirstDistinct(LongWords[calls[k].arg], 3, << >>)

(***************************************************************************)
(* C30: generate_story chooses the story theme as the first theme, in the  *)
(* order adventure, romance, mystery, fantasy, inspirational, whose        *)
(* keywords occur in the prompt, and default when none occurs; a prompt    *)
(* with both a fantasy keyword and an inspirational keyword is classified  *)
(* as fantasy.                                                             *)
(***************************************************************************)
ThemeKeywords ==
    [ adventure     |-> { "adventure", "journey", "quest", "explore" },
      romance       |-> { "love", "romance", "heart", "together" },
      mystery       |-> { "mystery", "secret", "detective", "puzzle" },
      fantasy       |-> { "magic", "dragon", "fantasy", "wizard" },
      inspirational |-> { "inspire", "dream", "hope", "motivate" } ]

ThemesHit ==
    [p \in StoryTexts |->
        {th \in DOMAIN ThemeKeywords : \E w \in ThemeKeywords[th] : Contains(w, Lower(p))}]

IsStoryCall(k) == calls[k].fn = "generate_story"

C30_ThemeOrder ==
    \A k \in 1..Len(calls) :
        IsStoryCall(k) =>
            LET hit == ThemesHit[calls[k].arg]
            IN  calls[k].result.theme = IF "adventure" \in hit THEN "adventure"
                                        ELSE IF "romance" \in hit THEN "romance"
                                        ELSE IF "mystery" \in hit THEN "mystery"
                                        ELSE IF "fantasy" \in hit THEN "fantasy"
                                        ELSE IF "inspirational" \in hit THEN "inspirational"
                                        ELSE "default"

(***************************************************************************)
(* C31: in story mode the prompt sent to the image backend for each scene  *)
(* is scene-specific and tagged by position: the first scene's prompt as   *)
(* an establishing shot, the middle scene's as an action moment, and the   *)
(* last scene's as a resolution.                                           *)
(***************************************************************************)
\* the requests that have made a backend call in the story branch
StoryCallers ==
    {i \in 1..Len(reqs) : /\ reqs[i].gen # NoneRec
                          /\ reqs[i].gen.branch = "story"
                          /\ reqs[i].gen.prompts # << >>}

PositionTag(k, n) ==
    IF k = 1 THEN "establishing" ELSE IF k = n THEN "resolution" ELSE "action"

C31_ScenePromptsTagged ==
    \A i \in StoryCallers :
        LET f == reqs[i].gen
        IN  \A k \in 1..Len(f.prompts) :
                /\ Contains(f.scenes[k], f.prompts[k])
                /\ Contains(PositionTag(k, Len(f.scenes)), f.prompts[k])

(***************************************************************************)
(* C32: for every mode, the prompt that generate_content sends to the      *)
(* image backend contains the user's tracked mood and the fixed negative   *)
(* prompt describing unwanted artifacts.                                   *)
(***************************************************************************)
\* the requests that have made a backend call
BackendCallers ==
    {i \in 1..Len(reqs) : reqs[i].gen # NoneRec /\ reqs[i].gen.prompts # << >>}

C32_PromptHasMoodAndNegative ==
    \A i \in BackendCallers :
        LET f == reqs[i].gen
        IN  \A k \in 1..Len(f.prompts) :
                /\ Contains(f.mood, f.prompts[k])
                /\ Contains(negative_prompt, f.prompts[k])

(***************************************************************************)
(* C33: every result of generate_content has type image, poster or story   *)
(* (never question or error) and a metadata block whose mode is the branch *)
(* that produced it (personal for any mode outside the six known ones) and *)
(* whose mood is the user's tracked mood at the start of generation, or    *)
(* "vibrant" when no mood is recorded.                                     *)
(***************************************************************************)
\* the requests generate_content has returned a result to
Returned == {i \in 1..Len(reqs) : /\ reqs[i].gen # NoneRec
                                  /\ reqs[i].pc = "done"
                                  /\ reqs[i].response.status = 200}

\* the mood of the frame is the mood tracked when generate_content starts
MoodReadAtStart ==
    \A u \in Users :
        (Starts(u) /\ reqs'[Len(reqs')].gen # NoneRec)
        => LET tracked == Tracked(pending_context', u)
           IN  reqs'[Len(reqs')].gen.mood =
                   IF "mood" \in DOMAIN tracked THEN tracked["mood"] ELSE "vibrant"

ResultShape ==
    \A i \in Returned :
        LET result == reqs[i].response.body
        IN  /\ result.type \in {"image", "poster", "story"}
            /\ result.content.metadata.mode =
                   IF reqs[i].mode \in KnownModes THEN reqs[i].mode ELSE "personal"
            /\ result.content.metadata.mood = reqs[i].gen.mood

C33_ResultTypeModeMood == [][MoodReadAtStart]_vars /\ []ResultShape

\* a request in an unknown mode with no mood recorded came back as a personal image
\* with the mood "vibrant"
C33_Witness ==
    \E i \in Returned :
        /\ reqs[i].mode \notin KnownModes
        /\ "mood" \notin DOMAIN Tracked(pending_context, reqs[i].user_id)
        /\ reqs[i].response.body.type = "image"
        /\ reqs[i].response.body.content.metadata = [mode |-> "personal", mood |-> "vibrant"]

(***************************************************************************)
(* C34: get_context_prompt returns "{mood} atmosphere related to {event}"  *)
(* when both mood and event are recorded, "{mood} atmosphere" when only    *)
(* the mood is, "scene related to {event}" when only the event is, and the *)
(* empty string when neither is, and it changes no recorded mood or event. *)
(***************************************************************************)
\* this step is a call of get_context_prompt for the user
GetsContextPrompt(user_id) ==
    /\ Len(calls') = Len(calls) + 1
    /\ calls'[Len(calls')].fn = "get_context_prompt"
    /\ calls'[Len(calls')].user_id = user_id

C34_ContextPrompt ==
    [][ \A u \in Users :
          GetsContextPrompt(u)
          => LET d      == Tracked(pending_context, u)
                 result == calls'[Len(calls')].result
             IN  /\ ("mood" \in DOMAIN d /\ "event" \in DOMAIN d)
                    => result = d["mood"] \o " atmosphere related to " \o d["event"]
                 /\ ("mood" \in DOMAIN d /\ "event" \notin DOMAIN d)
                    => result = d["mood"] \o " atmosphere"
                 /\ ("mood" \notin DOMAIN d /\ "event" \in DOMAIN d)
                    => result = "scene related to " \o d["event"]
                 /\ ("mood" \notin DOMAIN d /\ "event" \notin DOMAIN d) => result = ""
                 /\ \A v \in Users :
                        Tracked(pending_context', v) = Tracked(pending_context, v) ]_vars

\* with the mood "tired" and the event "today" recorded, the call returned both
C34_Witness ==
    \E k \in 1..Len(calls) :
        /\ calls[k].fn = "get_context_prompt"
        /\ Tracked(pending_context, calls[k].user_id) = [mood |-> "tired", event |-> "today"]
        /\ calls[k].result = "tired atmosphere related to today"

(***************************************************************************)
(* C35: once a clarifying question is stored for a user it stays stored    *)
(* until a later message of that user is processed as its answer (or the   *)
(* user is reset): the completion of an earlier, still in-flight           *)
(* generation of the same user never overwrites or removes it.             *)
(***************************************************************************)
C35_QuestionStaysPending ==
    [][ \A u \in Users :
          ( /\ QuestionPending(conversation_state, u)
            /\ get_last_interaction(conversation_state', u)
                   # get_last_interaction(conversation_state, u) )
          => \/ Resets(u)
             \/ \E i \in 1..Len(reqs) :
                    /\ Completes(i)
                    /\ reqs[i].user_id = u
                    /\ reqs[i].last_interaction = get_last_interaction(conversation_state, u)
      ]_vars

(***************************************************************************)
(* C36: if processing a clarification answer fails with an exception, the  *)
(* pending question stays stored with the same original_query, so the      *)
(* user's next message is again handled as the clarification answer to     *)
(* that question.                                                          *)
(***************************************************************************)
\* this step answers request i, processed as a clarification answer, with an error
FailsClarification(i) ==
    /\ i \in 1..Len(reqs')
    /\ IsClarification(reqs'[i])
    /\ IsFailed(reqs'[i])
    /\ i \in 1..Len(reqs) => ~IsFailed(reqs[i])

SameDecision ==
    \A i, j \in 1..Len(reqs) :
        ( /\ reqs[i].message = reqs[j].message
          /\ IsClarification(reqs[i]) <=> IsClarification(reqs[j]) )
        => (IsAsked(reqs[i]) <=> IsAsked(reqs[j]))

DecisionRule ==
    \A u \in Users :
        Starts(u)
        => LET r == reqs'[Len(reqs')]
           IN  IsAsked(r) <=> /\ ~QuestionPending(conversation_state, u)
                              /\ VagueByDefinition[r.message]

C37_DecisionIgnoresContext == []SameDecision /\ [][DecisionRule]_vars

\* the vague message was asked about when nothing was recorded, and again after the
\* answer had recorded the mood "peaceful"
C37_Witness ==
    /\ Len(reqs) = 3
    /\ reqs[1].message = MsgMyDay /\ IsAsked(reqs[1])
    /\ reqs[2].message = MsgPeaceful /\ reqs[2].pc = "done" /\ reqs[2].gen.mood = "peaceful"
    /\ reqs[3].message = MsgMyDay /\ ~IsClarification(reqs[3]) /\ IsAsked(reqs[3])
    /\ pending_context["u1"]["mood"] = "peaceful"

(***************************************************************************)
(* C38: in the result of a processed clarification answer, metadata.mood   *)
(* equals the mood this same request persisted with                        *)
(* update_context_with_mood, under any interleaving with other requests of *)
(* the same user.                                                          *)
(***************************************************************************)
\* the mood process_clarified_request persists for an answer
PersistedMood(answer) ==
    IF MappingHits[answer] = {} THEN "thoughtful"
    ELSE mood_map_keys[CHOOSE k \in MappingHits[answer] : TRUE]

C38_ResultMoodIsOwnMood ==
    \A i \in 1..Len(reqs) :
        (IsClarification(reqs[i]) /\ reqs[i].gen # NoneRec)
        => /\ reqs[i].gen.mood = PersistedMood(reqs[i].message)
           /\ (reqs[i].pc = "done" /\ reqs[i].response.status = 200)
              => reqs[i].response.body.content.metadata.mood = PersistedMood(reqs[i].message)

\* two answers to one question were in flight together: the first came back with its
\* own mood "peaceful" after the second had persisted "thoughtful"
C38_Witness ==
    \E i, j \in 1..Len(reqs) :
        /\ i < j
        /\ IsClarification(reqs[i]) /\ reqs[i].message = MsgPeaceful
        /\ IsClarification(reqs[j]) /\ reqs[j].message = MsgHectic
        /\ reqs[j].last_interaction = reqs[i].last_interaction
        /\ reqs[i].pc = "done"
        /\ reqs[i].response.body.content.metadata.mood = "peaceful"
        /\ pending_context["u1"]["mood"] = "thoughtful"

(***************************************************************************)
(* C39: every clarifying question that /chat returns is one of the three   *)
(* "day" phrasings: a message is only vague when it contains "my day" or   *)
(* "today", so the "feeling" and "default" buckets of                      *)
(* generate_clarifying_question are never selected through /chat.          *)
(***************************************************************************)
DayPhrasings ==
    { "I'd love to visualize your day! Could you tell me more about how it felt?",
      "What was the predominant feeling during your day?",
      "How would you describe the energy of your day?" }

C39_OnlyDayQuestions ==
    \A i \in 1..Len(reqs) :
        IsAsked(reqs[i]) => reqs[i].response.body.content.text \in DayPhrasings

\* a vague message that also holds the word "feel" was asked about with the third of
\* the "day" phrasings
C39_Witness ==
    \E i \in 1..Len(reqs) :
        /\ reqs[i].message = MsgFeelToday
        /\ Contains("feel", Lower(reqs[i].message))
        /\ IsAsked(reqs[i])
        /\ reqs[i].response.body.content.text = "How would you describe the energy of your day?"

(***************************************************************************)
(* C40: POST /reset never modifies the memory log: after a reset the       *)
(* user's logged messages, and the favorite style and themes derived from  *)
(* them, are the same as before and still influence later generations.     *)
(* As written the claim fails for the themes (C40_PreferencesInfluence);   *)
(* it holds for the log, for what is derived from it, and for the favorite *)
(* style, which the personal branch appends to its prompt                  *)
(* (C40_ResetKeepsMemory).                                                 *)
(***************************************************************************)
\* the user's log when request i called get_user_preferences (each request has logged
\* one message, the log is below its cap)
LogAt(i) ==
    LET user_id == reqs[i].user_id
        logged  == Cardinality({k \in 1..i : reqs[k].user_id = user_id})
        history == DictGet(user_memory, user_id, << >>)
    IN  IF logged <= Len(history) THEN SubSeq(history, 1, logged) ELSE history

\* the distinct theme words detect_common_themes draws from
ThemeWordsAt(i) ==
    LET entries == LastN(LogAt(i), ThemeWindow)
    IN  UNION {ThemeWordsTable[entries[k].message] : k \in 1..Len(entries)}

EndsWith(s, tail) == Len(tail) <= Len(s) /\ SubSeq(s, Len(s) - Len(tail) + 1, Len(s)) = tail

PersonalGenerations ==
    {i \in 1..Len(reqs) : reqs[i].gen # NoneRec /\ reqs[i].gen.branch = "personal"}

ResetLeavesLog ==
    \A u \in Users :
        Resets(u) => /\ user_memory' = user_memory
                     /\ get_user_preferences(user_memory', u)
                            = get_user_preferences(user_memory, u)

\* the prompt of a personal generation ends with the base style and the favorite style
\* of the log
StyleEntersPrompt ==
    \A i \in PersonalGenerations :
        \E favorite_style \in detect_favorite_style(LogAt(i)) :
            EndsWith(reqs[i].gen.enhanced_prompt,
                     IF favorite_style = NoneRec THEN ", " \o base_style
                     ELSE ", " \o base_style \o ", " \o favorite_style.value)

\* two generations that differ in the themes of the log, and in nothing else the prompt
\* is built from, have different prompts
ThemesEnterPrompt ==
    \A i, j \in PersonalGenerations :
        ( /\ reqs[i].gen.message = reqs[j].gen.message
          /\ reqs[i].gen.mood = reqs[j].gen.mood
          /\ reqs[i].gen.base_style = reqs[j].gen.base_style
          /\ ThemeWordsAt(i) # ThemeWordsAt(j) )
        => reqs[i].gen.enhanced_prompt # reqs[j].gen.enhanced_prompt

====
